---- MODULE Spec2Model ----
(***************************************************************************)
(* Verification model of the LFT study-aid application.                    *)
(*                                                                         *)
(*   SpecSRS  : the spaced-repetition arithmetic of handleSRSUpdate,       *)
(*              applied repeatedly to a newly created flashcard.           *)
(*   Spec     : the FlashcardsTab component with the object heap it works  *)
(*              on (arrays, card objects, SRSData records), the in-memory  *)
(*              store of firebaseService and its delayed writes.           *)
(*   SpecQuiz : the question ordering of QuizTab.                          *)
(*   SpecSession : a quiz session of QuizTab with its grading calls.       *)
(*   SpecStore, SpecScores : addStudySet and updateKeywordScore of the     *)
(*              two persistence services.                                  *)
(*   SpecClean : the cleaning and parsing of the generation response.      *)
(*   SpecModal : DashboardView and the Add New Source modal.               *)
(*   SpecView  : StudySetView loading a study set, and its SummaryTab.     *)
(*                                                                         *)
(* Numbers that are reals in the program (interval, easeFactor) are exact  *)
(* rationals [n, d] in lowest terms; IEEE rounding is not modelled.        *)
(* Dates are integer clock ticks; one day is TicksPerDay ticks.            *)
(***************************************************************************)
EXTENDS Integers, Sequences, FiniteSets, TLC

\* ---------------------------------------------------------------- bounds
MaxChain == 8
MaxMagnitude == 1000000
MaxTime == 1
TicksPerDay == 2
MaxCards == 2
MaxReviews == 2
MaxQuestions == 3
MaxChildren == 1
MaxAdds == 1
MaxUpdates == 3
MaxSubmits == 2
MaxLoads == 2
MaxSaves == 2

\* ------------------------------------------------------------- rationals
RECURSIVE Gcd(_, _)
Gcd(a, b) == IF b = 0 THEN a ELSE Gcd(b, a % b)

Q(n, d) == LET g == Gcd(n, d) IN [n |-> n \div g, d |-> d \div g]

RMul(x, y) == Q(x.n * y.n, x.d * y.d)
RAdd(x, y) == Q(x.n * y.d + y.n * x.d, x.d * y.d)
RSub(x, y) == Q(x.n * y.d - y.n * x.d, x.d * y.d)
RLess(x, y) == x.n * y.d < y.n * x.d

\* Math.max on two numbers
MathMax(x, y) == IF RLess(x, y) THEN y ELSE x

\* Math.round: the nearest integer, halves rounded up
MathRound(x) == (2 * x.n + x.d) \div (2 * x.d)

Difficulty == {"again", "hard", "good", "easy"}

\* ------------------------------------------------- scheduler arithmetic
\* The srsData every new flashcard is created with.
NewSRSData(t) == [interval |-> Q(1, 1), easeFactor |-> Q(5, 2), nextReviewDate |-> t]

\* Variant of SRSAgain: the ease factor is lowered without its floor.
SRSAgainNoFloor(interval, easeFactor) ==
    [interval |-> Q(1, 1),
     easeFactor |-> RSub(easeFactor, Q(1, 5))]

\* Variant of SRSAgain: the interval is not reset.
SRSAgainKeepsInterval(interval, easeFactor) ==
    [interval |-> interval,
     easeFactor |-> MathMax(Q(13, 10), RSub(easeFactor, Q(1, 5)))]

\* case 'again': interval = 1; easeFactor = Math.max(1.3, easeFactor - 0.2)
SRSAgain(interval, easeFactor) ==
    [interval |-> Q(1, 1),
     easeFactor |-> MathMax(Q(13, 10), RSub(easeFactor, Q(1, 5)))]

\* Variant of SRSHard: the interval is shortened without its floor.
SRSHardNoFloor(interval, easeFactor) ==
    [interval |-> RMul(interval, Q(4, 5)),
     easeFactor |-> MathMax(Q(13, 10), RSub(easeFactor, Q(3, 20)))]

\* case 'hard': interval = Math.max(1, interval * 0.8);
\*              easeFactor = Math.max(1.3, easeFactor - 0.15)
SRSHard(interval, easeFactor) ==
    [interval |-> MathMax(Q(1, 1), RMul(interval, Q(4, 5))),
     easeFactor |-> MathMax(Q(13, 10), RSub(easeFactor, Q(3, 20)))]

\* Variant of SRSGood: the ease factor is raised as for 'easy'.
SRSGoodRaisesEase(interval, easeFactor) ==
    [interval |-> RMul(interval, easeFactor),
     easeFactor |-> RAdd(easeFactor, Q(3, 20))]

\* case 'good': interval *= easeFactor
SRSGood(interval, easeFactor) ==
    [interval |-> RMul(interval, easeFactor),
     easeFactor |-> easeFactor]

\* Variant of SRSEasy: the ease factor is raised before the interval is
\* multiplied by it.
SRSEasyRaisesFirst(interval, easeFactor) ==
    [interval |-> RMul(interval, RMul(RAdd(easeFactor, Q(3, 20)), Q(13, 10))),
     easeFactor |-> RAdd(easeFactor, Q(3, 20))]

\* case 'easy': interval *= easeFactor * 1.3; easeFactor += 0.15
SRSEasy(interval, easeFactor) ==
    [interval |-> RMul(interval, RMul(easeFactor, Q(13, 10))),
     easeFactor |-> RAdd(easeFactor, Q(3, 20))]

\* The switch of handleSRSUpdate: the pair (interval, easeFactor) after a
\* review of the given difficulty.
SRSSwitch(interval, easeFactor, diff) ==
    CASE diff = "again" -> SRSAgain(interval, easeFactor)
      [] diff = "hard" -> SRSHard(interval, easeFactor)
      [] diff = "good" -> SRSGood(interval, easeFactor)
      [] diff = "easy" -> SRSEasy(interval, easeFactor)

\* new Date(); setDate(getDate() + Math.round(interval))
SetDate(t, interval) == t + MathRound(interval) * TicksPerDay

\* Variant of SRSUpdate: the date is computed from the interval the card
\* had before the review.
SRSUpdateOldInterval(old, diff, t) ==
    LET s == SRSSwitch(old.interval, old.easeFactor, diff)
    IN  [interval |-> s.interval,
         easeFactor |-> s.easeFactor,
         nextReviewDate |-> SetDate(t, old.interval)]

\* The SRSData record handleSRSUpdate builds for a card reviewed at time t.
SRSUpdate(old, diff, t) ==
    LET s == SRSSwitch(old.interval, old.easeFactor, diff)
    IN  [interval |-> s.interval,
         easeFactor |-> s.easeFactor,
         nextReviewDate |-> SetDate(t, s.interval)]

\* The numerators and denominators of a record are small enough for the
\* next review to be computed in 32-bit integers.
Representable(s) ==
    /\ s.interval.n <= MaxMagnitude
    /\ s.interval.d <= MaxMagnitude
    /\ s.easeFactor.n <= MaxMagnitude
    /\ s.easeFactor.d <= MaxMagnitude

\* ------------------------------------------------------------------ state
VARIABLES
    now,              \* the clock new Date() reads, in ticks
    \* SpecSRS: one card reviewed again and again
    srsData,          \* card.srsData as the last review read it
    newSrsData,       \* the card's current srsData (newSrsData of the last review)
    difficulty,       \* the rating of the last review, "none" before any
    reviewedAt,       \* the clock at the last review
    chain,            \* number of reviews made so far
    \* Spec: the object heap; an address is an index, 0 is null
    srsHeap,          \* SRSData records
    cardHeap,         \* Flashcard objects; srsData holds the address of a record
    arrHeap,          \* arrays of Flashcard addresses
    \* Spec: firebaseService (in-memory store)
    mockFlashcards,   \* the store's array of Flashcard addresses
    pendingSRS,       \* updateFlashcardSRS calls whose timer has not fired yet
    \* Spec: StudySetView
    dataFlashcards,   \* data.flashcards: address of the loaded array, 0 while data is null
    tabOpen,          \* activeTab = 'flashcards': FlashcardsTab is mounted
    \* Spec: FlashcardsTab
    flashcards,       \* the flashcards state: address of an array (studyDeck is the same array)
    isStudying,
    currentCardIndex, \* 0-based, as in the code
    isFlipped,
    \* Spec: counters
    reviews,          \* calls of handleSRSUpdate so far
    sessionRatings,   \* ratings given since the last startStudySession
    \* SpecQuiz: QuizTab
    questions,        \* the questions prop
    sortedQuestions,  \* the memoised sorted copy
    quizTabOpen,      \* activeTab = 'quiz': QuizTab is mounted
    prevSorted,       \* <<s>> when the previous mount of QuizTab computed s, else <<>>
    \* SpecSession: QuizTab's state
    quizState,            \* "idle", "active" or "finished"
    currentQuestionIndex, \* 0-based, as in the code
    score,
    userAnswer,           \* "" when empty
    feedback,             \* <<>> for null, else <<[correct, text]>>
    isSubmitting,
    gradingCall,          \* <<>>, or the gradeOpenEndedQuestion call being awaited
    attemptLog,           \* the evaluations made since the last startQuiz
    enteredFrom,          \* the quizState the last startQuiz was called in, "none" before any
    \* SpecStore, SpecScores: the persistence services
    backend,              \* the service the calls go to: "firebaseService" or "firestoreService"
    nextId,               \* the next id uuidv4() or doc(collection(...)) hands out
    mockStudySets,        \* firebaseService's arrays (mockFlashcards: see above)
    mockKeywords,
    mockPracticeQuestions,
    mockTimers,           \* setTimeout callbacks of firebaseService not yet run
    firestore,            \* the documents Firestore holds, by collection
    fsWrites,             \* writes sent to Firestore and not yet settled
    addLog,               \* the addStudySet calls that have ended, with their ends
    updateLog,            \* the updateKeywordScore calls made, in call order
    \* SpecClean: the tail of processSourceMaterial
    responseText,         \* response.text, with the parts it was made of
    jsonText,             \* <<>>, or <<t>> once cleanJsonString has returned t
    studySetData,         \* what JSON.parse made of jsonText
    \* SpecModal: DashboardView and AddNewSourceModal
    isModalOpen,
    sourceGiven,          \* a file or a URL has been entered
    modalIsLoading,
    modalError,           \* <<>> for null, else <<message>>
    submissions,          \* the runs of handleSubmit that are at an await
    fetchCalls,           \* calls of fetchStudySets not yet settled
    studySets,            \* DashboardView's list: the ids of the sets shown
    generationCalls,      \* calls of processSourceMaterial so far
    \* SpecView: StudySetView and SummaryTab
    selectedStudySetId,   \* 0 while the dashboard is shown
    viewIsLoading,
    viewData,             \* <<>> for null, else <<details>>
    loadCalls,            \* the getStudySetDetails calls made
    activeTab,
    summary,              \* SummaryTab's text
    isSaving,
    saveCalls             \* the updateSummaryText calls made by handleSave

srsVars == <<srsData, newSrsData, difficulty, reviewedAt, chain>>
heapVars == <<srsHeap, cardHeap, arrHeap>>
storeVars == <<mockFlashcards, pendingSRS>>
viewVars == <<dataFlashcards, tabOpen>>
tabVars == <<flashcards, isStudying, currentCardIndex, isFlipped>>
countVars == <<reviews, sessionRatings>>
deckVars == <<heapVars, storeVars, viewVars, tabVars, countVars>>
sessionVars == <<quizState, currentQuestionIndex, score, userAnswer, feedback,
                 isSubmitting, gradingCall, attemptLog, enteredFrom>>
quizVars == <<questions, sortedQuestions, quizTabOpen, prevSorted, sessionVars>>
dbVars == <<backend, nextId, mockStudySets, mockKeywords, mockPracticeQuestions,
            mockTimers, firestore, fsWrites, addLog, updateLog>>
cleanVars == <<responseText, jsonText, studySetData>>
modalVars == <<isModalOpen, sourceGiven, modalIsLoading, modalError, submissions,
               fetchCalls, studySets, generationCalls>>
pageVars == <<selectedStudySetId, viewIsLoading, viewData, loadCalls, activeTab, summary,
              isSaving, saveCalls>>
moreVars == <<cleanVars, modalVars, pageVars>>
vars == <<now, srsVars, deckVars, quizVars, dbVars, moreVars>>

\* What the actions of one specification leave alone.
offSRS == <<deckVars, quizVars, dbVars, moreVars>>
offDeck == <<srsVars, quizVars, dbVars, moreVars>>
offQuiz == <<now, srsVars, deckVars, dbVars, moreVars>>
offStore == <<srsVars, arrHeap, pendingSRS, viewVars, tabVars, countVars, quizVars, moreVars>>

\* --------------------------------------------------------- heap helpers
\* The SRSData record a card object points to.
SrsOf(cHeap, sHeap, c) == sHeap[cHeap[c].srsData]

\* new Date(card.srsData.nextReviewDate).getTime()
DateOf(cHeap, sHeap, c) == SrsOf(cHeap, sHeap, c).nextReviewDate

\* The comparator of studyDeck's sort: a negative, zero or positive number.
CompareDates(cHeap, sHeap, a, b) == DateOf(cHeap, sHeap, a) - DateOf(cHeap, sHeap, b)

\* Array.prototype.sort is stable: x is placed behind every element that
\* does not compare greater than it.
RECURSIVE InsertSorted(_, _, _, _)
InsertSorted(cHeap, sHeap, sorted, x) ==
    IF sorted = <<>> THEN <<x>>
    ELSE IF CompareDates(cHeap, sHeap, Head(sorted), x) > 0
         THEN <<x>> \o sorted
         ELSE <<Head(sorted)>> \o InsertSorted(cHeap, sHeap, Tail(sorted), x)

RECURSIVE SortDeck(_, _, _)
SortDeck(cHeap, sHeap, arr) ==
    IF arr = <<>> THEN <<>>
    ELSE InsertSorted(cHeap, sHeap,
                      SortDeck(cHeap, sHeap, SubSeq(arr, 1, Len(arr) - 1)),
                      arr[Len(arr)])

\* studyDeck = useMemo(() => flashcards.sort(...), [flashcards]): the array
\* at address a is sorted in place and is the deck.
SortInPlace(aHeap, cHeap, sHeap, a) ==
    [aHeap EXCEPT ![a] = SortDeck(cHeap, sHeap, aHeap[a])]

\* The deck being studied: the array the flashcards state points to.
studyDeck == IF flashcards = 0 THEN <<>> ELSE arrHeap[flashcards]

\* mockFlashcards.find(f => f.id === flashcardId): the first match, 0 if none
RECURSIVE FindCard(_, _, _)
FindCard(cHeap, arr, id) ==
    IF arr = <<>> THEN 0
    ELSE IF cHeap[Head(arr)].id = id THEN Head(arr)
         ELSE FindCard(cHeap, Tail(arr), id)

\* prev.map(c => c.id === card.id ? { ...c, srsData: newSrsData } : c):
\* the mapped array, given the address the copy of the card is put at.
MapReviewed(cHeap, prev, id, copyAddr) ==
    [k \in 1..Len(prev) |-> IF cHeap[prev[k]].id = id THEN copyAddr ELSE prev[k]]

\* ------------------------------------------------- SpecSRS: review chain
SRSIdle ==
    /\ srsData = NewSRSData(0)
    /\ newSrsData = NewSRSData(0)
    /\ difficulty = "none"
    /\ reviewedAt = 0
    /\ chain = 0

DeckIdle ==
    /\ srsHeap = <<>>
    /\ cardHeap = <<>>
    /\ arrHeap = <<>>
    /\ mockFlashcards = <<>>
    /\ pendingSRS = <<>>
    /\ dataFlashcards = 0
    /\ tabOpen = FALSE
    /\ flashcards = 0
    /\ isStudying = FALSE
    /\ currentCardIndex = 0
    /\ isFlipped = FALSE
    /\ reviews = 0
    /\ sessionRatings = 0

\* Nothing has been received from the generation collaborator.
CleanIdle ==
    /\ responseText = [opening |-> <<>>, payload |-> <<>>, closing |-> <<>>, text |-> <<>>]
    /\ jsonText = <<>>
    /\ studySetData = [status |-> "none", value |-> <<>>]

\* The useState initial values of DashboardView and AddNewSourceModal
ModalIdle ==
    /\ isModalOpen = FALSE
    /\ sourceGiven = FALSE
    /\ modalIsLoading = FALSE
    /\ modalError = <<>>
    /\ submissions = <<>>
    /\ fetchCalls = 0
    /\ studySets = <<>>
    /\ generationCalls = 0

\* No StudySetView is mounted.
PageIdle ==
    /\ selectedStudySetId = 0
    /\ viewIsLoading = FALSE
    /\ viewData = <<>>
    /\ loadCalls = <<>>
    /\ activeTab = "summary"
    /\ summary = ""
    /\ isSaving = FALSE
    /\ saveCalls = <<>>

MoreIdle ==
    /\ CleanIdle
    /\ ModalIdle
    /\ PageIdle

\* No call has been made to either persistence service; the arrays of
\* firebaseService other than mockFlashcards are left out of the picture.
StoreIdle ==
    /\ backend = "firebaseService"
    /\ nextId = 1
    /\ mockStudySets = <<>>
    /\ mockKeywords = <<>>
    /\ mockPracticeQuestions = <<>>
    /\ mockTimers = <<>>
    /\ firestore = [studySets |-> <<>>, keywords |-> <<>>, flashcards |-> <<>>,
                    practiceQuestions |-> <<>>]
    /\ fsWrites = <<>>
    /\ addLog = <<>>
    /\ updateLog = <<>>

\* The useState initial values of QuizTab
SessionInitial ==
    /\ quizState = "idle"
    /\ currentQuestionIndex = 0
    /\ score = 0
    /\ userAnswer = ""
    /\ feedback = <<>>
    /\ isSubmitting = FALSE
    /\ gradingCall = <<>>
    /\ attemptLog = <<>>
    /\ enteredFrom = "none"

QuizIdle ==
    /\ questions = <<>>
    /\ sortedQuestions = <<>>
    /\ quizTabOpen = FALSE
    /\ prevSorted = <<>>
    /\ SessionInitial

\* A flashcard as addStudySet creates it, not yet reviewed.
InitSRS ==
    /\ now = 0
    /\ SRSIdle
    /\ DeckIdle
    /\ QuizIdle
    /\ StoreIdle
    /\ MoreIdle

\* Time passes between reviews.
SRSTick ==
    /\ now < MaxTime
    /\ now' = now + 1
    /\ UNCHANGED <<srsVars, deckVars, quizVars, dbVars, moreVars>>

\* One review of the card: the arithmetic of handleSRSUpdate on the card's
\* current record.
SRSReview(diff) ==
    /\ chain < MaxChain
    /\ Representable(newSrsData)
    /\ srsData' = newSrsData
    /\ newSrsData' = SRSUpdate(newSrsData, diff, now)
    /\ difficulty' = diff
    /\ reviewedAt' = now
    /\ chain' = chain + 1
    /\ UNCHANGED <<now, offSRS>>

NextSRS ==
    \/ SRSTick
    \/ \E diff \in Difficulty : SRSReview(diff)

SpecSRS == InitSRS /\ [][NextSRS]_vars

\* ------------------------------------------ Spec: the flashcards tab
\* The store after initializeNewStudySetData has pushed n flashcards at
\* time 0: card k has id k and its own new SRSData record.
SeededCard(k) ==
    [id |-> k, frontText |-> <<"front", k>>, backText |-> <<"back", k>>,
     isUserEdited |-> FALSE, srsData |-> k]

Init ==
    /\ now = 0
    /\ SRSIdle
    /\ QuizIdle
    /\ StoreIdle
    /\ MoreIdle
    /\ \E n \in 0..MaxCards :
         /\ srsHeap = [k \in 1..n |-> NewSRSData(0)]
         /\ cardHeap = [k \in 1..n |-> SeededCard(k)]
         /\ mockFlashcards = [k \in 1..n |-> k]
    /\ arrHeap = <<>>
    /\ pendingSRS = <<>>
    /\ dataFlashcards = 0
    /\ tabOpen = FALSE
    /\ flashcards = 0
    /\ isStudying = FALSE
    /\ currentCardIndex = 0
    /\ isFlipped = FALSE
    /\ reviews = 0
    /\ sessionRatings = 0

\* Time passes: a tick is a good part of a day, so no 100 ms store timer is
\* still pending across it.
Tick ==
    /\ now < MaxTime
    /\ pendingSRS = <<>>
    /\ now' = now + 1
    /\ UNCHANGED <<srsVars, deckVars, quizVars, dbVars, moreVars>>

\* StudySetView's effect: getStudySetDetails resolves and setData stores
\* the result; flashcards is a new array (filter) of the store's own card
\* objects.
LoadDetails ==
    /\ dataFlashcards = 0
    /\ arrHeap' = Append(arrHeap, mockFlashcards)
    /\ dataFlashcards' = Len(arrHeap) + 1
    /\ UNCHANGED <<now, offDeck, srsHeap, cardHeap, storeVars, tabOpen, tabVars,
                   countVars>>

\* setActiveTab('flashcards'): FlashcardsTab mounts with
\* useState(initialFlashcards) and its first render sorts that array.
OpenFlashcardsTab ==
    /\ dataFlashcards # 0
    /\ ~tabOpen
    /\ tabOpen' = TRUE
    /\ flashcards' = dataFlashcards
    /\ arrHeap' = SortInPlace(arrHeap, cardHeap, srsHeap, dataFlashcards)
    /\ isStudying' = FALSE
    /\ currentCardIndex' = 0
    /\ isFlipped' = FALSE
    /\ UNCHANGED <<now, offDeck, srsHeap, cardHeap, storeVars, dataFlashcards, countVars>>

\* setActiveTab(another tab): FlashcardsTab unmounts and its state is gone.
\* The tab bar is behind the modal while a session is open.
LeaveFlashcardsTab ==
    /\ tabOpen
    /\ ~isStudying
    /\ tabOpen' = FALSE
    /\ flashcards' = 0
    /\ currentCardIndex' = 0
    /\ isFlipped' = FALSE
    /\ UNCHANGED <<now, offDeck, heapVars, storeVars, dataFlashcards, isStudying, countVars>>

\* onBack: StudySetView unmounts and data is dropped; with it the last
\* reference to every array of the view is gone, and so are the arrays.
Back ==
    /\ dataFlashcards # 0
    /\ ~isStudying
    /\ dataFlashcards' = 0
    /\ tabOpen' = FALSE
    /\ flashcards' = 0
    /\ currentCardIndex' = 0
    /\ isFlipped' = FALSE
    /\ arrHeap' = <<>>
    /\ UNCHANGED <<now, offDeck, srsHeap, cardHeap, storeVars, isStudying, countVars>>

\* The Study Deck button, disabled while the deck is empty.
startStudySession ==
    /\ tabOpen
    /\ ~isStudying
    /\ Len(studyDeck) # 0
    /\ currentCardIndex' = 0
    /\ isFlipped' = FALSE
    /\ isStudying' = TRUE
    /\ sessionRatings' = 0
    /\ UNCHANGED <<now, offDeck, heapVars, storeVars, viewVars, flashcards, reviews>>

\* Clicking the card: setIsFlipped(f => !f)
Flip ==
    /\ isStudying
    /\ isFlipped' = ~isFlipped
    /\ UNCHANGED <<now, offDeck, heapVars, storeVars, viewVars, flashcards, isStudying,
                   currentCardIndex, countVars>>

\* The modal's close button: setIsStudying(false)
CloseModal ==
    /\ isStudying
    /\ isStudying' = FALSE
    /\ UNCHANGED <<now, offDeck, heapVars, storeVars, viewVars, flashcards,
                   currentCardIndex, isFlipped, countVars>>

\* Variant of ApplyReview: the reviewed card object is updated in place
\* instead of being copied.
ApplyReviewInPlace(aHeap, cHeap, sHeap, fl, idx, diff, t) ==
    LET card == aHeap[fl][idx + 1]
        newAddr == Len(sHeap) + 1
        sHeap2 == Append(sHeap, SRSUpdate(SrsOf(cHeap, sHeap, card), diff, t))
        cHeap2 == [cHeap EXCEPT ![card].srsData = newAddr]
    IN  [srsHeap |-> sHeap2,
         cardHeap |-> cHeap2,
         arrHeap |-> Append(aHeap, SortDeck(cHeap2, sHeap2, aHeap[fl])),
         flashcards |-> Len(aHeap) + 1,
         write |-> [flashcardId |-> cHeap[card].id, newSRSData |-> newAddr]]

\* The heap after handleSRSUpdate and the render it causes: a new SRSData
\* record, a copy of the reviewed card pointing to it, and a new array
\* (prev.map) that the render sorts in place.
ApplyReview(aHeap, cHeap, sHeap, fl, idx, diff, t) ==
    LET card == aHeap[fl][idx + 1]
        newAddr == Len(sHeap) + 1
        copyAddr == Len(cHeap) + 1
        sHeap2 == Append(sHeap, SRSUpdate(SrsOf(cHeap, sHeap, card), diff, t))
        cHeap2 == Append(cHeap, [cHeap[card] EXCEPT !.srsData = newAddr])
        mapped == MapReviewed(cHeap, aHeap[fl], cHeap[card].id, copyAddr)
    IN  [srsHeap |-> sHeap2,
         cardHeap |-> cHeap2,
         arrHeap |-> Append(aHeap, SortDeck(cHeap2, sHeap2, mapped)),
         flashcards |-> Len(aHeap) + 1,
         write |-> [flashcardId |-> cHeap[card].id, newSRSData |-> newAddr]]

\* Variant of Advance: the session ends one card early.
AdvanceEndsEarly(idx, length) ==
    IF idx < length - 2
    THEN [currentCardIndex |-> idx + 1, isFlipped |-> FALSE, isStudying |-> TRUE]
    ELSE [currentCardIndex |-> idx, isFlipped |-> TRUE, isStudying |-> FALSE]

\* if (currentCardIndex < studyDeck.length - 1) next card, else end.
Advance(idx, length) ==
    IF idx < length - 1
    THEN [currentCardIndex |-> idx + 1, isFlipped |-> FALSE, isStudying |-> TRUE]
    ELSE [currentCardIndex |-> idx, isFlipped |-> TRUE, isStudying |-> FALSE]

\* A rating button; the buttons are rendered only on the flipped card.
handleSRSUpdate(diff) ==
    /\ isStudying
    /\ isFlipped
    /\ reviews < MaxReviews
    /\ Representable(SrsOf(cardHeap, srsHeap, studyDeck[currentCardIndex + 1]))
    /\ LET r == ApplyReview(arrHeap, cardHeap, srsHeap, flashcards,
                            currentCardIndex, diff, now)
           a == Advance(currentCardIndex, Len(studyDeck))
       IN  /\ srsHeap' = r.srsHeap
           /\ cardHeap' = r.cardHeap
           /\ arrHeap' = r.arrHeap
           /\ flashcards' = r.flashcards
           /\ pendingSRS' = Append(pendingSRS, r.write)
           /\ currentCardIndex' = a.currentCardIndex
           /\ isFlipped' = a.isFlipped
           /\ isStudying' = a.isStudying
    /\ reviews' = reviews + 1
    /\ sessionRatings' = sessionRatings + 1
    /\ UNCHANGED <<now, offDeck, mockFlashcards, viewVars>>

\* The timer of the oldest pending updateFlashcardSRS fires:
\* card.srsData = newSRSData on the store's card object.
StoreWrite ==
    /\ pendingSRS # <<>>
    /\ LET w == Head(pendingSRS)
           card == FindCard(cardHeap, mockFlashcards, w.flashcardId)
       IN  cardHeap' = IF card = 0 THEN cardHeap
                       ELSE [cardHeap EXCEPT ![card].srsData = w.newSRSData]
    /\ pendingSRS' = Tail(pendingSRS)
    /\ UNCHANGED <<now, offDeck, srsHeap, arrHeap, mockFlashcards, viewVars, tabVars, countVars>>

Next ==
    \/ Tick
    \/ LoadDetails
    \/ OpenFlashcardsTab
    \/ LeaveFlashcardsTab
    \/ Back
    \/ startStudySession
    \/ Flip
    \/ CloseModal
    \/ \E diff \in Difficulty : handleSRSUpdate(diff)
    \/ StoreWrite

Spec == Init /\ [][Next]_vars

\* ------------------------------------------- SpecQuiz: the quiz tab
\* Object.values(BloomLevel), in the order of the enum's declaration
bloomOrder == <<"Remember", "Understand", "Apply", "Analyze", "Evaluate", "Create">>

\* A bloom_level the generated payload may carry although the enum lacks it
\* (the payload's level is cast, not validated).
UnknownLevel == "Other"

PayloadLevels == {bloomOrder[k] : k \in 1..Len(bloomOrder)} \cup {UnknownLevel}

\* bloomOrder.indexOf(level): 0-based, -1 when the level is not in the list
IndexOf(order, level) ==
    IF \E k \in 1..Len(order) : order[k] = level
    THEN (CHOOSE k \in 1..Len(order) :
              order[k] = level /\ \A j \in 1..(k - 1) : order[j] # level) - 1
    ELSE -1

\* Variant of CompareBloom: the operands are swapped.
CompareBloomSwapped(a, b) ==
    IndexOf(bloomOrder, b.bloomLevel) - IndexOf(bloomOrder, a.bloomLevel)

\* The comparator of sortedQuestions
CompareBloom(a, b) ==
    IndexOf(bloomOrder, a.bloomLevel) - IndexOf(bloomOrder, b.bloomLevel)

\* Variant of InsertByBloom: x is placed in front of the elements it
\* compares equal to.
RECURSIVE InsertByBloomUnstable(_, _)
InsertByBloomUnstable(sorted, x) ==
    IF sorted = <<>> THEN <<x>>
    ELSE IF CompareBloom(Head(sorted), x) >= 0
         THEN <<x>> \o sorted
         ELSE <<Head(sorted)>> \o InsertByBloomUnstable(Tail(sorted), x)

\* Array.prototype.sort is stable (see InsertSorted).
RECURSIVE InsertByBloom(_, _)
InsertByBloom(sorted, x) ==
    IF sorted = <<>> THEN <<x>>
    ELSE IF CompareBloom(Head(sorted), x) > 0
         THEN <<x>> \o sorted
         ELSE <<Head(sorted)>> \o InsertByBloom(Tail(sorted), x)

\* [...questions].sort(comparator): a sorted copy
RECURSIVE SortByBloom(_)
SortByBloom(qs) ==
    IF qs = <<>> THEN <<>>
    ELSE InsertByBloom(SortByBloom(SubSeq(qs, 1, Len(qs) - 1)), qs[Len(qs)])

\* The question lists a study set can hold: question k has id k and any
\* level of the payload.
QuestionLists ==
    UNION {[1..n -> PayloadLevels] : n \in 0..MaxQuestions}

InitQuiz ==
    /\ now = 0
    /\ SRSIdle
    /\ DeckIdle
    /\ StoreIdle
    /\ MoreIdle
    /\ \E levels \in QuestionLists :
         questions = [k \in DOMAIN levels |-> [id |-> k, bloomLevel |-> levels[k]]]
    /\ sortedQuestions = <<>>
    /\ quizTabOpen = FALSE
    /\ prevSorted = <<>>
    /\ SessionInitial

\* QuizTab's state hooks hold their initial values: at mount, and (as the
\* model's value for state that no longer exists) after unmount.
ResetSession ==
    /\ quizState' = "idle"
    /\ currentQuestionIndex' = 0
    /\ score' = 0
    /\ userAnswer' = ""
    /\ feedback' = <<>>
    /\ isSubmitting' = FALSE
    /\ gradingCall' = <<>>
    /\ attemptLog' = <<>>
    /\ enteredFrom' = "none"

\* The render of the active quiz reads currentQuestion.bloomLevel: with no
\* question at the index it throws, and React removes the whole tree.
RenderThrows ==
    /\ quizTabOpen
    /\ quizState = "active"
    /\ currentQuestionIndex >= Len(sortedQuestions)

\* setActiveTab('quiz'): QuizTab mounts and its first render computes
\* sortedQuestions.
OpenQuizTab ==
    /\ ~quizTabOpen
    /\ quizTabOpen' = TRUE
    /\ sortedQuestions' = SortByBloom(questions)
    /\ ResetSession
    /\ UNCHANGED <<questions, prevSorted, offQuiz>>

\* setActiveTab(another tab): QuizTab unmounts; its state is dropped and
\* the continuation of a pending grading call no longer has any effect.
LeaveQuizTab ==
    /\ quizTabOpen
    /\ ~RenderThrows
    /\ quizTabOpen' = FALSE
    /\ sortedQuestions' = <<>>
    /\ prevSorted' = <<sortedQuestions>>
    /\ ResetSession
    /\ UNCHANGED <<questions, offQuiz>>

NextQuiz ==
    \/ OpenQuizTab
    \/ LeaveQuizTab

SpecQuiz == InitQuiz /\ [][NextQuiz]_vars

\* --------------------------------------- SpecSession: one quiz session
\* QuestionType
QuestionTypes == {"mcq", "open_ended"}

\* The levels of the questions a session runs over: two ranks are enough
\* to make the sorted order differ from the input order.
SessionLevels == {"Remember", "Apply"}

\* The options of a multiple-choice question and its correct one
MCQOptions == <<"A", "B">>

MCQCorrectAnswer == "B"

\* What the user can type into the textarea
TypedAnswers == {"", "x", "y"}

\* Question k of the store, as initializeNewStudySetData pushes it
Question(k, type, level) ==
    [id |-> k,
     bloomLevel |-> level,
     questionType |-> type,
     questionText |-> <<"question", k>>,
     options |-> IF type = "mcq" THEN MCQOptions ELSE <<>>,
     correctAnswer |-> IF type = "mcq" THEN MCQCorrectAnswer ELSE "",
     aiGradingRubric |-> <<"rubric", k>>]

SessionLists ==
    UNION {[1..n -> QuestionTypes \X SessionLevels] : n \in 0..MaxQuestions}

InitSession ==
    /\ now = 0
    /\ SRSIdle
    /\ DeckIdle
    /\ StoreIdle
    /\ MoreIdle
    /\ \E kinds \in SessionLists :
         questions = [k \in DOMAIN kinds |-> Question(k, kinds[k][1], kinds[k][2])]
    /\ sortedQuestions = <<>>
    /\ quizTabOpen = FALSE
    /\ prevSorted = <<>>
    /\ SessionInitial

\* const currentQuestion = sortedQuestions[currentQuestionIndex]
currentQuestion == sortedQuestions[currentQuestionIndex + 1]

\* Variant of startQuiz: the score of the previous attempt is kept.
startQuizKeepsScore ==
    /\ quizTabOpen
    /\ quizState \in {"idle", "finished"}
    /\ quizState' = "active"
    /\ currentQuestionIndex' = 0
    /\ feedback' = <<>>
    /\ userAnswer' = ""
    /\ attemptLog' = <<>>
    /\ enteredFrom' = quizState
    /\ UNCHANGED <<questions, sortedQuestions, quizTabOpen, prevSorted, score,
                   isSubmitting, gradingCall, offQuiz>>

\* The 'Start Quiz' button of the idle view and the 'Try Again' button of
\* the finished view.
startQuiz ==
    /\ quizTabOpen
    /\ quizState \in {"idle", "finished"}
    /\ quizState' = "active"
    /\ currentQuestionIndex' = 0
    /\ score' = 0
    /\ feedback' = <<>>
    /\ userAnswer' = ""
    /\ attemptLog' = <<>>
    /\ enteredFrom' = quizState
    /\ UNCHANGED <<questions, sortedQuestions, quizTabOpen, prevSorted,
                   isSubmitting, gradingCall, offQuiz>>

\* The option buttons and the textarea: enabled while no feedback is
\* shown.
setUserAnswer(answer) ==
    /\ quizTabOpen
    /\ quizState = "active"
    /\ ~RenderThrows
    /\ feedback = <<>>
    /\ IF currentQuestion.questionType = "mcq"
       THEN \E k \in 1..Len(currentQuestion.options) : answer = currentQuestion.options[k]
       ELSE answer \in TypedAnswers
    /\ userAnswer' = answer
    /\ UNCHANGED <<questions, sortedQuestions, quizTabOpen, prevSorted, enteredFrom, quizState,
                   currentQuestionIndex, score, feedback, isSubmitting, gradingCall,
                   attemptLog, offQuiz>>

\* Variant of handleNextQuestion: the typed answer is left in place.
handleNextQuestionKeepsAnswer ==
    /\ quizTabOpen
    /\ quizState = "active"
    /\ ~RenderThrows
    /\ feedback # <<>>
    /\ IF currentQuestionIndex < Len(sortedQuestions) - 1
       THEN /\ currentQuestionIndex' = currentQuestionIndex + 1
            /\ feedback' = <<>>
            /\ UNCHANGED <<quizState, userAnswer>>
       ELSE /\ quizState' = "finished"
            /\ UNCHANGED <<currentQuestionIndex, feedback, userAnswer>>
    /\ UNCHANGED <<questions, sortedQuestions, quizTabOpen, prevSorted, enteredFrom,
                   score, isSubmitting, gradingCall, attemptLog, offQuiz>>

\* The 'Next Question' button, shown while feedback is shown.
handleNextQuestion ==
    /\ quizTabOpen
    /\ quizState = "active"
    /\ ~RenderThrows
    /\ feedback # <<>>
    /\ IF currentQuestionIndex < Len(sortedQuestions) - 1
       THEN /\ currentQuestionIndex' = currentQuestionIndex + 1
            /\ feedback' = <<>>
            /\ userAnswer' = ""
            /\ UNCHANGED quizState
       ELSE /\ quizState' = "finished"
            /\ UNCHANGED <<currentQuestionIndex, feedback, userAnswer>>
    /\ UNCHANGED <<questions, sortedQuestions, quizTabOpen, prevSorted, enteredFrom,
                   score, isSubmitting, gradingCall, attemptLog, offQuiz>>

\* Variant of EvaluateMCQ: the answer is compared with the first option.
EvaluateMCQFirstOption(q, answer) ==
    LET isCorrect == answer = q.options[1]
    IN  [correct |-> isCorrect,
         text |-> IF isCorrect THEN <<"Correct!">>
                  ELSE <<"The correct answer is ", q.correctAnswer>>]

\* The closed-form branch of handleSubmitAnswer: the feedback it sets. A
\* text is the sequence of the template's parts.
EvaluateMCQ(q, answer) ==
    LET isCorrect == answer = q.correctAnswer
    IN  [correct |-> isCorrect,
         text |-> IF isCorrect THEN <<"Correct!">>
                  ELSE <<"The correct answer is ", q.correctAnswer>>]

\* Variant of FeedbackOf: an incorrect verdict's text is replaced.
FeedbackOfRewritten(result) ==
    [correct |-> result.is_correct,
     text |-> IF result.is_correct THEN result.feedback_text ELSE <<"Needs Review">>]

\* The open-form branch of handleSubmitAnswer: the feedback it sets from
\* the collaborator's result.
FeedbackOf(result) ==
    [correct |-> result.is_correct, text |-> result.feedback_text]

\* The promise of a gradeOpenEndedQuestion call that has not settled
PendingResponse == [status |-> "pending", is_correct |-> FALSE, feedback_text |-> <<>>]

\* ... that has rejected: the request failed or JSON.parse threw
RejectedResponse == [status |-> "rejected", is_correct |-> FALSE, feedback_text |-> <<>>]

\* ... that has resolved to the parsed object
FulfilledResponses ==
    [status : {"fulfilled"}, is_correct : BOOLEAN,
     feedback_text : {<<"well done">>, <<"needs work">>}]

\* The 'Submit Answer' button: enabled with a non-empty answer while
\* isSubmitting is false. The closed-form branch runs to its end at once;
\* the open-form branch stops at the await with isSubmitting true.
handleSubmitAnswer ==
    /\ quizTabOpen
    /\ quizState = "active"
    /\ ~RenderThrows
    /\ feedback = <<>>
    /\ userAnswer # ""
    /\ ~isSubmitting
    /\ IF currentQuestion.questionType = "mcq"
       THEN LET result == EvaluateMCQ(currentQuestion, userAnswer)
            IN  /\ score' = IF result.correct THEN score + 1 ELSE score
                /\ feedback' = <<result>>
                /\ isSubmitting' = FALSE
                /\ attemptLog' = Append(attemptLog, [index |-> currentQuestionIndex,
                                                     correct |-> result.correct])
                /\ UNCHANGED gradingCall
       ELSE /\ isSubmitting' = TRUE
            /\ gradingCall' = <<[questionText |-> currentQuestion.questionText,
                                 aiGradingRubric |-> currentQuestion.aiGradingRubric,
                                 userAnswer |-> userAnswer,
                                 response |-> PendingResponse]>>
            /\ UNCHANGED <<score, feedback, attemptLog>>
    /\ UNCHANGED <<questions, sortedQuestions, quizTabOpen, prevSorted, enteredFrom, quizState,
                   currentQuestionIndex, userAnswer, offQuiz>>

\* The collaborator settles the call: it resolves to a verdict or rejects.
gradeOpenEndedQuestion(response) ==
    /\ gradingCall # <<>>
    /\ gradingCall[1].response = PendingResponse
    /\ gradingCall' = <<[gradingCall[1] EXCEPT !.response = response]>>
    /\ UNCHANGED <<questions, sortedQuestions, quizTabOpen, prevSorted, enteredFrom, quizState,
                   currentQuestionIndex, score, userAnswer, feedback, isSubmitting,
                   attemptLog, offQuiz>>

\* Variant of handleSubmitAnswerResumes: a correct open-form answer is not
\* counted.
handleSubmitAnswerResumesUncounted ==
    /\ gradingCall # <<>>
    /\ gradingCall[1].response # PendingResponse
    /\ gradingCall' = <<>>
    /\ IF gradingCall[1].response.status = "fulfilled"
       THEN LET result == gradingCall[1].response
            IN  /\ feedback' = <<FeedbackOf(result)>>
                /\ isSubmitting' = FALSE
                /\ attemptLog' = Append(attemptLog, [index |-> currentQuestionIndex,
                                                     correct |-> result.is_correct])
                /\ UNCHANGED score
       ELSE UNCHANGED <<score, feedback, isSubmitting, attemptLog>>
    /\ UNCHANGED <<questions, sortedQuestions, quizTabOpen, prevSorted, enteredFrom, quizState,
                   currentQuestionIndex, userAnswer, offQuiz>>

\* handleSubmitAnswer resumes after the await. With a result it counts
\* the answer, sets the feedback and clears isSubmitting; a rejection is
\* thrown out of the handler, which has no catch, so nothing more is set.
handleSubmitAnswerResumes ==
    /\ gradingCall # <<>>
    /\ gradingCall[1].response # PendingResponse
    /\ gradingCall' = <<>>
    /\ IF gradingCall[1].response.status = "fulfilled"
       THEN LET result == gradingCall[1].response
            IN  /\ score' = IF result.is_correct THEN score + 1 ELSE score
                /\ feedback' = <<FeedbackOf(result)>>
                /\ isSubmitting' = FALSE
                /\ attemptLog' = Append(attemptLog, [index |-> currentQuestionIndex,
                                                     correct |-> result.is_correct])
       ELSE UNCHANGED <<score, feedback, isSubmitting, attemptLog>>
    /\ UNCHANGED <<questions, sortedQuestions, quizTabOpen, prevSorted, enteredFrom, quizState,
                   currentQuestionIndex, userAnswer, offQuiz>>

NextSession ==
    \/ OpenQuizTab
    \/ LeaveQuizTab
    \/ startQuiz
    \/ \E answer \in TypedAnswers \cup {MCQOptions[k] : k \in 1..Len(MCQOptions)} :
          setUserAnswer(answer)
    \/ handleSubmitAnswer
    \/ \E response \in FulfilledResponses \cup {RejectedResponse} :
          gradeOpenEndedQuestion(response)
    \/ handleSubmitAnswerResumes
    \/ handleNextQuestion

SpecSession == InitSession /\ [][NextSession]_vars

\* ------------------------------- SpecStore: addStudySet of both services
\* mockUsers: the users whose uid a call can carry
Users == {"user1", "user2"}

Backends == {"firebaseService", "firestoreService"}

\* A child list of a generated payload: the property may be missing
\* (undefined), else it is a list of items; item k stands for its texts.
MissingList == [defined |-> FALSE, items |-> <<>>]

ChildLists ==
    {MissingList} \cup {[defined |-> TRUE, items |-> [k \in 1..n |-> k]] : n \in 0..MaxChildren}

\* The payloads processSourceMaterial can hand over: JSON.parse output that
\* nothing validates.
Payloads == [keywords : ChildLists, flashcards : ChildLists, practice_questions : ChildLists]

\* The payload of the seeding call at the end of the module
SeedData ==
    [keywords |-> [defined |-> TRUE, items |-> <<1>>],
     flashcards |-> [defined |-> TRUE, items |-> <<1>>],
     practice_questions |-> [defined |-> TRUE, items |-> <<1>>]]

\* userImportanceScores: {}
NoScores == [u \in {} |-> 0]

\* Variant of NewFlashcard: the card is created as edited by the user.
NewFlashcardUserEdited(id, studySetId, f, srs) ==
    [id |-> id, studySetId |-> studySetId, frontText |-> <<"front", f>>,
     backText |-> <<"back", f>>, isUserEdited |-> TRUE, srsData |-> srs]

\* The flashcard object pushed for item f of the payload
NewFlashcard(id, studySetId, f, srs) ==
    [id |-> id, studySetId |-> studySetId, frontText |-> <<"front", f>>,
     backText |-> <<"back", f>>, isUserEdited |-> FALSE, srsData |-> srs]

\* The arrays of firebaseService before the seeding call
EmptyMock ==
    [studySets |-> <<>>, keywords |-> <<>>, flashcards |-> <<>>,
     practiceQuestions |-> <<>>, srsHeap |-> <<>>, cardHeap |-> <<>>,
     nextId |-> 1, threw |-> FALSE]

\* initializeNewStudySetData(userId, data) at time t on the arrays m: the
\* study set is pushed first, then each child list in turn; forEach on a
\* missing list throws, and what was pushed before stays.
InitializeNewStudySetData(m, userId, data, t) ==
    LET studySetId == m.nextId
        nKeywords == IF data.keywords.defined THEN Len(data.keywords.items) ELSE 0
        atFlashcards == data.keywords.defined
        nFlashcards == IF atFlashcards /\ data.flashcards.defined
                       THEN Len(data.flashcards.items) ELSE 0
        atQuestions == atFlashcards /\ data.flashcards.defined
        nQuestions == IF atQuestions /\ data.practice_questions.defined
                      THEN Len(data.practice_questions.items) ELSE 0
    IN  [studySets |-> Append(m.studySets,
                              [id |-> studySetId, userId |-> userId,
                               summaryText |-> "generated", createdAt |-> t]),
         keywords |-> m.keywords \o
             [k \in 1..nKeywords |->
                 [id |-> studySetId + k, studySetId |-> studySetId,
                  text |-> <<"keyword", data.keywords.items[k]>>,
                  userImportanceScores |-> NoScores]],
         flashcards |-> m.flashcards \o
             [k \in 1..nFlashcards |-> Len(m.cardHeap) + k],
         cardHeap |-> m.cardHeap \o
             [k \in 1..nFlashcards |->
                 NewFlashcard(studySetId + nKeywords + k, studySetId,
                              data.flashcards.items[k], Len(m.srsHeap) + k)],
         srsHeap |-> m.srsHeap \o [k \in 1..nFlashcards |-> NewSRSData(t)],
         practiceQuestions |-> m.practiceQuestions \o
             [k \in 1..nQuestions |->
                 [id |-> studySetId + nKeywords + nFlashcards + k,
                  studySetId |-> studySetId,
                  questionText |-> <<"question", data.practice_questions.items[k]>>]],
         nextId |-> studySetId + 1 + nKeywords + nFlashcards + nQuestions,
         threw |-> ~(atQuestions /\ data.practice_questions.defined)]

\* The arrays of firebaseService as one record
MockStore ==
    [studySets |-> mockStudySets, keywords |-> mockKeywords,
     flashcards |-> mockFlashcards, practiceQuestions |-> mockPracticeQuestions,
     srsHeap |-> srsHeap, cardHeap |-> cardHeap, nextId |-> nextId, threw |-> FALSE]

\* The batch firestoreService.addStudySet builds before it commits: the
\* same documents, flashcards carrying their srsData. A missing list throws
\* before batch.commit() is reached.
FirestoreBatch(userId, data, id, t) ==
    LET built == InitializeNewStudySetData([EmptyMock EXCEPT !.nextId = id], userId, data, t)
    IN  [studySets |-> built.studySets,
         keywords |-> built.keywords,
         flashcards |-> [k \in 1..Len(built.cardHeap) |->
                            [built.cardHeap[k] EXCEPT !.srsData = built.srsHeap[k]]],
         practiceQuestions |-> built.practiceQuestions,
         nextId |-> built.nextId,
         threw |-> built.threw]

\* The calls made and not yet ended
AddsPending ==
    Cardinality({k \in 1..Len(mockTimers) : mockTimers[k].op = "addStudySet"})
    + Cardinality({k \in 1..Len(fsWrites) : fsWrites[k].op = "batch"})

InitStore ==
    /\ now = 0
    /\ SRSIdle
    /\ QuizIdle
    /\ arrHeap = <<>>
    /\ pendingSRS = <<>>
    /\ dataFlashcards = 0
    /\ tabOpen = FALSE
    /\ flashcards = 0
    /\ isStudying = FALSE
    /\ currentCardIndex = 0
    /\ isFlipped = FALSE
    /\ reviews = 0
    /\ sessionRatings = 0
    /\ backend \in Backends
    /\ LET seeded == InitializeNewStudySetData(EmptyMock, "user1", SeedData, 0)
       IN  /\ mockStudySets = seeded.studySets
           /\ mockKeywords = seeded.keywords
           /\ mockFlashcards = seeded.flashcards
           /\ mockPracticeQuestions = seeded.practiceQuestions
           /\ srsHeap = seeded.srsHeap
           /\ cardHeap = seeded.cardHeap
           /\ nextId = seeded.nextId
    /\ mockTimers = <<>>
    /\ firestore = [studySets |-> <<>>, keywords |-> <<>>, flashcards |-> <<>>,
                    practiceQuestions |-> <<>>]
    /\ fsWrites = <<>>
    /\ addLog = <<>>
    /\ updateLog = <<>>
    /\ MoreIdle

\* Time passes between calls; the 500 ms timers of firebaseService do not
\* stay pending across a tick, a Firestore write can.
StoreTick ==
    /\ now < MaxTime
    /\ mockTimers = <<>>
    /\ now' = now + 1
    /\ UNCHANGED <<dbVars, mockFlashcards, srsHeap, cardHeap, offStore>>

\* firebaseService.addStudySet: the work is left to a timer.
mockAddStudySet(userId, data) ==
    /\ backend = "firebaseService"
    /\ Len(addLog) + AddsPending < MaxAdds
    /\ mockTimers' = Append(mockTimers, [op |-> "addStudySet", userId |-> userId, data |-> data])
    /\ UNCHANGED <<backend, nextId, mockStudySets, mockKeywords, mockPracticeQuestions,
                   mockFlashcards, srsHeap, cardHeap, firestore, fsWrites, addLog,
                   updateLog, now, offStore>>

\* The timer of addStudySet runs: initializeNewStudySetData, then resolve.
\* When the helper throws, the promise is never settled.
mockAddStudySetTimer ==
    /\ mockTimers # <<>>
    /\ Head(mockTimers).op = "addStudySet"
    /\ LET call == Head(mockTimers)
           after == InitializeNewStudySetData(MockStore, call.userId, call.data, now)
       IN  /\ mockStudySets' = after.studySets
           /\ mockKeywords' = after.keywords
           /\ mockFlashcards' = after.flashcards
           /\ mockPracticeQuestions' = after.practiceQuestions
           /\ srsHeap' = after.srsHeap
           /\ cardHeap' = after.cardHeap
           /\ nextId' = after.nextId
           /\ addLog' = Append(addLog, [service |-> "firebaseService",
                                        studySetId |-> nextId, data |-> call.data,
                                        outcome |-> IF after.threw THEN "threw" ELSE "resolved"])
    /\ mockTimers' = Tail(mockTimers)
    /\ UNCHANGED <<backend, firestore, fsWrites, updateLog, now, offStore>>

\* firestoreService.addStudySet up to its await: the batch is built and
\* sent, or building it throws and the call rejects with nothing sent.
fsAddStudySet(userId, data) ==
    /\ backend = "firestoreService"
    /\ Len(addLog) + AddsPending < MaxAdds
    /\ LET batch == FirestoreBatch(userId, data, nextId, now)
       IN  /\ nextId' = batch.nextId
           /\ IF batch.threw
              THEN /\ addLog' = Append(addLog, [service |-> "firestoreService",
                                                studySetId |-> nextId, data |-> data,
                                                outcome |-> "rejected"])
                   /\ UNCHANGED fsWrites
              ELSE /\ fsWrites' = Append(fsWrites, [op |-> "batch", studySetId |-> nextId,
                                                    data |-> data, batch |-> batch])
                   /\ UNCHANGED addLog
    /\ UNCHANGED <<backend, mockStudySets, mockKeywords, mockPracticeQuestions,
                   mockFlashcards, srsHeap, cardHeap, mockTimers, firestore,
                   updateLog, now, offStore>>

\* batch.commit() succeeds: Firestore applies every write of the batch.
batchCommit ==
    /\ fsWrites # <<>>
    /\ Head(fsWrites).op = "batch"
    /\ LET write == Head(fsWrites)
       IN  /\ firestore' =
                 [studySets |-> firestore.studySets \o write.batch.studySets,
                  keywords |-> firestore.keywords \o write.batch.keywords,
                  flashcards |-> firestore.flashcards \o write.batch.flashcards,
                  practiceQuestions |-> firestore.practiceQuestions
                                            \o write.batch.practiceQuestions]
           /\ addLog' = Append(addLog, [service |-> "firestoreService",
                                        studySetId |-> write.studySetId,
                                        data |-> write.data, outcome |-> "resolved"])
    /\ fsWrites' = Tail(fsWrites)
    /\ UNCHANGED <<backend, nextId, mockStudySets, mockKeywords, mockPracticeQuestions,
                   mockFlashcards, srsHeap, cardHeap, mockTimers, updateLog, now, offStore>>

\* batch.commit() rejects: Firestore applies none of the writes.
batchCommitFails ==
    /\ fsWrites # <<>>
    /\ Head(fsWrites).op = "batch"
    /\ addLog' = Append(addLog, [service |-> "firestoreService",
                                 studySetId |-> Head(fsWrites).studySetId,
                                 data |-> Head(fsWrites).data, outcome |-> "rejected"])
    /\ fsWrites' = Tail(fsWrites)
    /\ UNCHANGED <<backend, nextId, mockStudySets, mockKeywords, mockPracticeQuestions,
                   mockFlashcards, srsHeap, cardHeap, mockTimers, firestore,
                   updateLog, now, offStore>>

NextStore ==
    \/ \E userId \in Users, data \in Payloads : mockAddStudySet(userId, data)
    \/ mockAddStudySetTimer
    \/ \E userId \in Users, data \in Payloads : fsAddStudySet(userId, data)
    \/ batchCommit
    \/ batchCommitFails
    \/ StoreTick

SpecStore == InitStore /\ [][NextStore]_vars

\* ------------------------- SpecScores: updateKeywordScore of both services
\* The scores the star rating can send
Ratings == {2, 5}

\* An id no keyword has
MissingKeywordId == 0

\* The payloads of the study sets added before the scores are given
OneKeywordData ==
    [keywords |-> [defined |-> TRUE, items |-> <<1>>],
     flashcards |-> [defined |-> TRUE, items |-> <<>>],
     practice_questions |-> [defined |-> TRUE, items |-> <<>>]]

TwoKeywordsData ==
    [keywords |-> [defined |-> TRUE, items |-> <<1, 2>>],
     flashcards |-> [defined |-> TRUE, items |-> <<>>],
     practice_questions |-> [defined |-> TRUE, items |-> <<>>]]

\* firebaseService holds the seeded study set and one added by user2;
\* Firestore holds one study set of two keywords. No keyword has a score.
InitScores ==
    /\ now = 0
    /\ SRSIdle
    /\ QuizIdle
    /\ arrHeap = <<>>
    /\ pendingSRS = <<>>
    /\ dataFlashcards = 0
    /\ tabOpen = FALSE
    /\ flashcards = 0
    /\ isStudying = FALSE
    /\ currentCardIndex = 0
    /\ isFlipped = FALSE
    /\ reviews = 0
    /\ sessionRatings = 0
    /\ backend \in Backends
    /\ LET seeded == InitializeNewStudySetData(EmptyMock, "user1", SeedData, 0)
           added == InitializeNewStudySetData(seeded, "user2", OneKeywordData, 0)
           batch == FirestoreBatch("user1", TwoKeywordsData, added.nextId, 0)
       IN  /\ mockStudySets = added.studySets
           /\ mockKeywords = added.keywords
           /\ mockFlashcards = added.flashcards
           /\ mockPracticeQuestions = added.practiceQuestions
           /\ srsHeap = added.srsHeap
           /\ cardHeap = added.cardHeap
           /\ firestore = [studySets |-> batch.studySets, keywords |-> batch.keywords,
                           flashcards |-> batch.flashcards,
                           practiceQuestions |-> batch.practiceQuestions]
           /\ nextId = batch.nextId
    /\ mockTimers = <<>>
    /\ fsWrites = <<>>
    /\ addLog = <<>>
    /\ updateLog = <<>>
    /\ MoreIdle

\* The ids a call can name: those of the service's keywords and a stale one
KeywordIdsOf(keywords) ==
    {keywords[k].id : k \in 1..Len(keywords)} \cup {MissingKeywordId}

\* Variant of SetScore: the map is replaced by one holding only the new
\* entry.
SetScoreReplacesMap(scores, userId, rating) ==
    [u \in {userId} |-> rating]

\* keyword.userImportanceScores[userId] = score, and the same as
\* updateDoc's field path userImportanceScores.<userId>
SetScore(scores, userId, rating) ==
    [u \in DOMAIN scores \cup {userId} |-> IF u = userId THEN rating ELSE scores[u]]

\* The keywords after the write has been made to the keyword of that id
WithScore(keywords, keywordId, userId, rating) ==
    [k \in 1..Len(keywords) |->
        IF keywords[k].id = keywordId
        THEN [keywords[k] EXCEPT !.userImportanceScores = SetScore(@, userId, rating)]
        ELSE keywords[k]]

HasKeyword(keywords, keywordId) ==
    \E k \in 1..Len(keywords) : keywords[k].id = keywordId

\* A call of updateKeywordScore as the log keeps it
ScoreCall(keywordId, userId, rating) ==
    [keywordId |-> keywordId, userId |-> userId, score |-> rating, status |-> "pending"]

\* firebaseService.updateKeywordScore: the work is left to a timer.
mockUpdateKeywordScore(keywordId, userId, rating) ==
    /\ backend = "firebaseService"
    /\ Len(updateLog) < MaxUpdates
    /\ mockTimers' = Append(mockTimers, [op |-> "updateKeywordScore",
                                         keywordId |-> keywordId, userId |-> userId,
                                         score |-> rating, call |-> Len(updateLog) + 1])
    /\ updateLog' = Append(updateLog, ScoreCall(keywordId, userId, rating))
    /\ UNCHANGED <<backend, nextId, mockStudySets, mockKeywords, mockPracticeQuestions,
                   mockFlashcards, srsHeap, cardHeap, firestore, fsWrites, addLog,
                   now, offStore>>

\* The timer of updateKeywordScore runs; the timers have one delay and run
\* in the order of their calls.
mockUpdateKeywordScoreTimer ==
    /\ mockTimers # <<>>
    /\ Head(mockTimers).op = "updateKeywordScore"
    /\ LET timer == Head(mockTimers)
       IN  IF HasKeyword(mockKeywords, timer.keywordId)
           THEN /\ mockKeywords' = WithScore(mockKeywords, timer.keywordId,
                                             timer.userId, timer.score)
                /\ updateLog' = [updateLog EXCEPT ![timer.call].status = "resolved"]
           ELSE /\ updateLog' = [updateLog EXCEPT ![timer.call].status = "rejected"]
                /\ UNCHANGED mockKeywords
    /\ mockTimers' = Tail(mockTimers)
    /\ UNCHANGED <<backend, nextId, mockStudySets, mockPracticeQuestions,
                   mockFlashcards, srsHeap, cardHeap, firestore, fsWrites, addLog,
                   now, offStore>>

\* firestoreService.updateKeywordScore: updateDoc is sent.
fsUpdateKeywordScore(keywordId, userId, rating) ==
    /\ backend = "firestoreService"
    /\ Len(updateLog) < MaxUpdates
    /\ fsWrites' = Append(fsWrites, [op |-> "updateDoc",
                                     keywordId |-> keywordId, userId |-> userId,
                                     score |-> rating, call |-> Len(updateLog) + 1])
    /\ updateLog' = Append(updateLog, ScoreCall(keywordId, userId, rating))
    /\ UNCHANGED <<backend, nextId, mockStudySets, mockKeywords, mockPracticeQuestions,
                   mockFlashcards, srsHeap, cardHeap, mockTimers, firestore, addLog,
                   now, offStore>>

\* Firestore settles the oldest updateDoc: the field is written, or the
\* call rejects because the document does not exist.
updateDocSettles ==
    /\ fsWrites # <<>>
    /\ Head(fsWrites).op = "updateDoc"
    /\ LET write == Head(fsWrites)
       IN  IF HasKeyword(firestore.keywords, write.keywordId)
           THEN /\ firestore' = [firestore EXCEPT !.keywords =
                                    WithScore(@, write.keywordId, write.userId, write.score)]
                /\ updateLog' = [updateLog EXCEPT ![write.call].status = "resolved"]
           ELSE /\ updateLog' = [updateLog EXCEPT ![write.call].status = "rejected"]
                /\ UNCHANGED firestore
    /\ fsWrites' = Tail(fsWrites)
    /\ UNCHANGED <<backend, nextId, mockStudySets, mockKeywords, mockPracticeQuestions,
                   mockFlashcards, srsHeap, cardHeap, mockTimers, addLog, now, offStore>>

\* Firestore refuses the oldest updateDoc (the request fails): nothing is
\* written.
updateDocFails ==
    /\ fsWrites # <<>>
    /\ Head(fsWrites).op = "updateDoc"
    /\ updateLog' = [updateLog EXCEPT ![Head(fsWrites).call].status = "rejected"]
    /\ fsWrites' = Tail(fsWrites)
    /\ UNCHANGED <<backend, nextId, mockStudySets, mockKeywords, mockPracticeQuestions,
                   mockFlashcards, srsHeap, cardHeap, mockTimers, firestore, addLog,
                   now, offStore>>

NextScores ==
    \/ \E keywordId \in KeywordIdsOf(mockKeywords), userId \in Users, rating \in Ratings :
          mockUpdateKeywordScore(keywordId, userId, rating)
    \/ mockUpdateKeywordScoreTimer
    \/ \E keywordId \in KeywordIdsOf(firestore.keywords), userId \in Users, rating \in Ratings :
          fsUpdateKeywordScore(keywordId, userId, rating)
    \/ updateDocSettles
    \/ updateDocFails

SpecScores == InitScores /\ [][NextScores]_vars

\* ------------------------- SpecClean: the tail of processSourceMaterial
\* A text is the sequence of its characters.
Whitespace == {" ", "\n"}

\* The backtick character
Backtick == "backtick"

Fence == <<Backtick, Backtick, Backtick>>

FenceJson == Fence \o <<"j", "s", "o", "n">>

\* String.prototype.trim
RECURSIVE TrimStart(_)
TrimStart(t) ==
    IF t # <<>> /\ Head(t) \in Whitespace THEN TrimStart(Tail(t)) ELSE t

RECURSIVE TrimEnd(_)
TrimEnd(t) ==
    IF t # <<>> /\ t[Len(t)] \in Whitespace THEN TrimEnd(SubSeq(t, 1, Len(t) - 1)) ELSE t

Trim(t) == TrimEnd(TrimStart(t))

\* String.prototype.startsWith and endsWith
StartsWith(t, prefix) ==
    Len(t) >= Len(prefix) /\ SubSeq(t, 1, Len(prefix)) = prefix

EndsWith(t, suffix) ==
    Len(t) >= Len(suffix) /\ SubSeq(t, Len(t) - Len(suffix) + 1, Len(t)) = suffix

\* let jsonText = text.trim(); drop a leading fence with the tag json
\* (substring(7)); drop a trailing fence (substring(0, length - 3)).
cleanJsonString(text) ==
    LET trimmed == Trim(text)
        opened == IF StartsWith(trimmed, FenceJson) THEN SubSeq(trimmed, 8, Len(trimmed))
                  ELSE trimmed
    IN  IF EndsWith(opened, Fence) THEN SubSeq(opened, 1, Len(opened) - 3) ELSE opened

\* JSON.parse on the texts over the characters [ ] { } , 1 and whitespace
\* (every other character is an error where a value or a delimiter is
\* expected): numbers are runs of the digit, arrays hold values separated
\* by commas, the only object is the empty one.  A parsed value is written
\* as its tokens, which leaves out insignificant whitespace.
RECURSIVE SkipWhitespace(_, _)
SkipWhitespace(t, i) ==
    IF i <= Len(t) /\ t[i] \in Whitespace THEN SkipWhitespace(t, i + 1) ELSE i

RECURSIVE NumberEnd(_, _)
NumberEnd(t, i) ==
    IF i <= Len(t) /\ t[i] = "1" THEN NumberEnd(t, i + 1) ELSE i

SyntaxError == [ok |-> FALSE, value |-> <<>>, next |-> 0]

RECURSIVE ParseValue(_, _)
RECURSIVE ParseElements(_, _, _)
\* The value that starts at position i (whitespace before it skipped)
ParseValue(t, i) ==
    LET at == SkipWhitespace(t, i)
    IN  IF at > Len(t) THEN SyntaxError
        ELSE IF t[at] = "1"
        THEN [ok |-> TRUE, value |-> SubSeq(t, at, NumberEnd(t, at) - 1),
              next |-> NumberEnd(t, at)]
        ELSE IF t[at] = "{"
        THEN LET close == SkipWhitespace(t, at + 1)
             IN  IF close <= Len(t) /\ t[close] = "}"
                 THEN [ok |-> TRUE, value |-> <<"{", "}">>, next |-> close + 1]
                 ELSE SyntaxError
        ELSE IF t[at] = "["
        THEN LET close == SkipWhitespace(t, at + 1)
             IN  IF close <= Len(t) /\ t[close] = "]"
                 THEN [ok |-> TRUE, value |-> <<"[", "]">>, next |-> close + 1]
                 ELSE ParseElements(t, at + 1, <<"[">>)
        ELSE SyntaxError

\* The elements of an array from position i on, acc being the tokens read
ParseElements(t, i, acc) ==
    LET element == ParseValue(t, i)
        after == SkipWhitespace(t, element.next)
    IN  IF ~element.ok \/ after > Len(t) THEN SyntaxError
        ELSE IF t[after] = "]"
        THEN [ok |-> TRUE, value |-> acc \o element.value \o <<"]">>, next |-> after + 1]
        ELSE IF t[after] = ","
        THEN ParseElements(t, after + 1, acc \o element.value \o <<",">>)
        ELSE SyntaxError

\* JSON.parse(text): the value, or a SyntaxError is thrown; nothing but
\* whitespace may follow the value.
JSONParse(t) ==
    LET parsed == ParseValue(t, 1)
    IN  IF parsed.ok /\ SkipWhitespace(t, parsed.next) > Len(t)
        THEN [status |-> "value", value |-> parsed.value]
        ELSE [status |-> "threw", value |-> <<>>]

\* What generateContent can put between the fences: JSON texts, and texts
\* that are not JSON.
JsonPayloads ==
    {<<"{", "}">>, <<"[", "]">>, <<"1">>, <<"[", "1", ",", " ", "{", " ", "}", "]">>,
     <<"[", "[", "1", "1", "]", "]">>}

BrokenPayloads == {<<>>, <<"x">>, <<"[", "1">>, <<"{", "}", "}">>}

OpeningFences == {<<>>, Fence, FenceJson}

ClosingFences == {<<>>, Fence}

Padding == {<<>>, <<"\n">>, <<" ", "\n">>}

\* response.text: padding, an opening fence or none, the payload on its
\* own line or not, a closing fence or none, padding.
InitClean ==
    /\ now = 0
    /\ SRSIdle
    /\ DeckIdle
    /\ QuizIdle
    /\ StoreIdle
    /\ ModalIdle
    /\ PageIdle
    /\ \E opening \in OpeningFences, closing \in ClosingFences,
          payload \in JsonPayloads \cup BrokenPayloads,
          before \in Padding, inner \in Padding, after \in Padding :
          responseText = [opening |-> opening, payload |-> payload, closing |-> closing,
                          text |-> before \o opening \o inner \o payload \o inner
                                       \o closing \o after]
    /\ jsonText = <<>>
    /\ studySetData = [status |-> "none", value |-> <<>>]

\* processSourceMaterial after the await of generateContent: the text is
\* cleaned and parsed; the async function returns the value (its promise
\* is fulfilled) or the SyntaxError leaves it (its promise is rejected).
processSourceMaterialParses ==
    /\ jsonText = <<>>
    /\ jsonText' = <<cleanJsonString(responseText.text)>>
    /\ LET parsed == JSONParse(cleanJsonString(responseText.text))
       IN  studySetData' =
               IF parsed.status = "value"
               THEN [status |-> "fulfilled", value |-> parsed.value]
               ELSE [status |-> "rejected", value |-> <<>>]
    /\ UNCHANGED <<now, srsVars, deckVars, quizVars, dbVars, modalVars, pageVars,
                   responseText>>

NextClean == processSourceMaterialParses

SpecClean == InitClean /\ [][NextClean]_vars

\* ----------------- SpecModal: DashboardView and the Add New Source modal
\* The user of the dashboard (App renders it for a signed-in user only)
DashboardUser == "user1"

\* What processSourceMaterial can resolve with: a complete payload, and one
\* that lacks a list.
ModalPayloads == {SeedData, [SeedData EXCEPT !.practice_questions = MissingList]}

NoSourceMessage == "Please provide a source."

FailedMessage == "Failed to create study set. The AI model may be overloaded. Please try again."

\* A run of handleSubmit is at one of its two awaits.
InFlight(run) == run.stage \in {"generating", "persisting"}

\* A run of handleSubmit at its first await.  closed records that
\* handleClose ran while the run was in flight.
NewSubmission ==
    [stage |-> "generating", studySetId |-> 0, batch |-> <<>>, closed |-> FALSE]

\* Variant of AfterHandleClose: closing the modal cancels the runs in flight.
AfterHandleCloseAborting(runs) ==
    [k \in 1..Len(runs) |->
        IF InFlight(runs[k]) THEN [runs[k] EXCEPT !.closed = TRUE, !.stage = "failed"]
        ELSE runs[k]]

\* The runs of handleSubmit after handleClose: it sets state and calls
\* onClose, and has no handle on a run in flight.
AfterHandleClose(runs) ==
    [k \in 1..Len(runs) |->
        IF InFlight(runs[k]) THEN [runs[k] EXCEPT !.closed = TRUE] ELSE runs[k]]

\* Variant of SubmitFailed: there is no finally block.
SubmitFailedKeepsLoading == [error |-> <<FailedMessage>>, isLoading |-> TRUE]

\* catch { setError(...) } finally { setIsLoading(false) }
SubmitFailed == [error |-> <<FailedMessage>>, isLoading |-> FALSE]

\* DashboardView is mounted: its effect has called fetchStudySets, the
\* modal is closed.
InitModal ==
    /\ now = 0
    /\ SRSIdle
    /\ DeckIdle
    /\ QuizIdle
    /\ StoreIdle
    /\ CleanIdle
    /\ PageIdle
    /\ isModalOpen = FALSE
    /\ sourceGiven = FALSE
    /\ modalIsLoading = FALSE
    /\ modalError = <<>>
    /\ submissions = <<>>
    /\ fetchCalls = 1
    /\ studySets = <<>>
    /\ generationCalls = 0

\* What no action of the dashboard touches
offModal == <<now, srsVars, deckVars, quizVars, cleanVars, pageVars, backend,
              mockStudySets, mockKeywords, mockPracticeQuestions, mockTimers,
              fsWrites, addLog, updateLog>>

\* The Add New Source button: setIsModalOpen(true)
openModal ==
    /\ ~isModalOpen
    /\ isModalOpen' = TRUE
    /\ UNCHANGED <<sourceGiven, modalIsLoading, modalError, submissions, fetchCalls,
                   studySets, generationCalls, nextId, firestore, offModal>>

\* A file is chosen or a URL is typed: setFile, setYoutubeUrl
setSource ==
    /\ isModalOpen
    /\ ~sourceGiven
    /\ sourceGiven' = TRUE
    /\ UNCHANGED <<isModalOpen, modalIsLoading, modalError, submissions, fetchCalls,
                   studySets, generationCalls, nextId, firestore, offModal>>

\* The form is submitted (the button is disabled while isLoading): up to
\* the await of processSourceMaterial.
handleSubmit ==
    /\ isModalOpen
    /\ ~modalIsLoading
    /\ IF ~sourceGiven
       THEN /\ modalError' = <<NoSourceMessage>>
            /\ UNCHANGED <<modalIsLoading, submissions, generationCalls>>
       ELSE /\ generationCalls < MaxSubmits
            /\ modalError' = <<>>
            /\ modalIsLoading' = TRUE
            /\ generationCalls' = generationCalls + 1
            /\ submissions' = Append(submissions, NewSubmission)
    /\ UNCHANGED <<isModalOpen, sourceGiven, fetchCalls, studySets, nextId, firestore,
                   offModal>>

\* The modal's close button: handleClose
handleClose ==
    /\ isModalOpen
    /\ sourceGiven' = FALSE
    /\ modalError' = <<>>
    /\ modalIsLoading' = FALSE
    /\ isModalOpen' = FALSE
    /\ submissions' = AfterHandleClose(submissions)
    /\ UNCHANGED <<fetchCalls, studySets, generationCalls, nextId, firestore, offModal>>

\* processSourceMaterial resolves for run k: handleSubmit goes on to
\* firestoreService.addStudySet, which builds its batch and awaits the
\* commit, or throws while building and is caught.
processSourceMaterialResolves(k, data) ==
    /\ k \in 1..Len(submissions)
    /\ submissions[k].stage = "generating"
    /\ LET batch == FirestoreBatch(DashboardUser, data, nextId, now)
       IN  /\ nextId' = batch.nextId
           /\ IF batch.threw
              THEN /\ submissions' = [submissions EXCEPT ![k].stage = "failed"]
                   /\ modalError' = SubmitFailed.error
                   /\ modalIsLoading' = SubmitFailed.isLoading
              ELSE /\ submissions' = [submissions EXCEPT ![k].stage = "persisting",
                                                          ![k].studySetId = nextId,
                                                          ![k].batch = <<batch>>]
                   /\ UNCHANGED <<modalError, modalIsLoading>>
    /\ UNCHANGED <<isModalOpen, sourceGiven, fetchCalls, studySets, generationCalls,
                   firestore, offModal>>

\* processSourceMaterial rejects for run k (the request fails or the
\* response does not parse): catch and finally.
processSourceMaterialRejects(k) ==
    /\ k \in 1..Len(submissions)
    /\ submissions[k].stage = "generating"
    /\ submissions' = [submissions EXCEPT ![k].stage = "failed"]
    /\ modalError' = SubmitFailed.error
    /\ modalIsLoading' = SubmitFailed.isLoading
    /\ UNCHANGED <<isModalOpen, sourceGiven, fetchCalls, studySets, generationCalls,
                   nextId, firestore, offModal>>

\* batch.commit() resolves for run k: onStudySetAdded() calls
\* fetchStudySets, handleClose() resets and closes the modal, finally.
addStudySetResolves(k) ==
    /\ k \in 1..Len(submissions)
    /\ submissions[k].stage = "persisting"
    /\ LET batch == submissions[k].batch[1]
       IN  firestore' =
               [studySets |-> firestore.studySets \o batch.studySets,
                keywords |-> firestore.keywords \o batch.keywords,
                flashcards |-> firestore.flashcards \o batch.flashcards,
                practiceQuestions |-> firestore.practiceQuestions
                                          \o batch.practiceQuestions]
    /\ fetchCalls' = fetchCalls + 1
    /\ sourceGiven' = FALSE
    /\ modalError' = <<>>
    /\ modalIsLoading' = FALSE
    /\ isModalOpen' = FALSE
    /\ submissions' = AfterHandleClose([submissions EXCEPT ![k].stage = "done"])
    /\ UNCHANGED <<studySets, generationCalls, nextId, offModal>>

\* batch.commit() rejects for run k: nothing is written; catch and finally.
addStudySetRejects(k) ==
    /\ k \in 1..Len(submissions)
    /\ submissions[k].stage = "persisting"
    /\ submissions' = [submissions EXCEPT ![k].stage = "failed"]
    /\ modalError' = SubmitFailed.error
    /\ modalIsLoading' = SubmitFailed.isLoading
    /\ UNCHANGED <<isModalOpen, sourceGiven, fetchCalls, studySets, generationCalls,
                   nextId, firestore, offModal>>

\* getStudySetsForUser resolves: setStudySets(sets)
fetchStudySetsResolves ==
    /\ fetchCalls > 0
    /\ fetchCalls' = fetchCalls - 1
    /\ studySets' = LET sets == firestore.studySets
                        RECURSIVE Ids(_)
                        Ids(n) == IF n = 0 THEN <<>>
                                  ELSE IF sets[n].userId = DashboardUser
                                       THEN Append(Ids(n - 1), sets[n].id)
                                       ELSE Ids(n - 1)
                    IN  Ids(Len(sets))
    /\ UNCHANGED <<isModalOpen, sourceGiven, modalIsLoading, modalError, submissions,
                   generationCalls, nextId, firestore, offModal>>

\* getStudySetsForUser rejects: the list stays as it is.
fetchStudySetsRejects ==
    /\ fetchCalls > 0
    /\ fetchCalls' = fetchCalls - 1
    /\ UNCHANGED <<isModalOpen, sourceGiven, modalIsLoading, modalError, submissions,
                   studySets, generationCalls, nextId, firestore, offModal>>

NextModal ==
    \/ openModal
    \/ setSource
    \/ handleSubmit
    \/ handleClose
    \/ \E k \in 1..MaxSubmits, data \in ModalPayloads : processSourceMaterialResolves(k, data)
    \/ \E k \in 1..MaxSubmits : processSourceMaterialRejects(k)
    \/ \E k \in 1..MaxSubmits : addStudySetResolves(k)
    \/ \E k \in 1..MaxSubmits : addStudySetRejects(k)
    \/ fetchStudySetsResolves
    \/ fetchStudySetsRejects

SpecModal == InitModal /\ [][NextModal]_vars

\* -------------------------- SpecView: StudySetView and its SummaryTab
\* The documents of a collection that a service holds
Stored(service, collection) ==
    IF service = "firestoreService" THEN firestore[collection]
    ELSE CASE collection = "studySets" -> mockStudySets
           [] collection = "keywords" -> mockKeywords
           [] collection = "flashcards" -> [k \in 1..Len(mockFlashcards) |-> cardHeap[mockFlashcards[k]]]
           [] OTHER -> mockPracticeQuestions

\* The texts a summary can have: the generated one and what the user types
SummaryTexts == {"generated", "edited", "edited again"}

\* Variant of FilterByStudySet: every document of the collection is returned.
FilterByStudySetUnfiltered(docs, studySetId) ==
    docs

\* array.filter(d => d.studySetId === studySetId); in Firestore, the
\* documents under studySets/{studySetId}/...
FilterByStudySet(docs, studySetId) ==
    SelectSeq(docs, LAMBDA d : d.studySetId = studySetId)

\* The ids of the study sets a service holds
StudySetIdsOf(service) ==
    {Stored(service, "studySets")[j].id : j \in 1..Len(Stored(service, "studySets"))}

\* The study set of a service with the given id
StudySetOf(service, studySetId) ==
    LET sets == Stored(service, "studySets")
    IN  sets[CHOOSE j \in 1..Len(sets) : sets[j].id = studySetId]

\* getStudySetDetails(studySetId) on a service: <<>> for null, else the
\* study set and its children.  firebaseService hands out its own study
\* set object (shared, its text is read in the store); Firestore hands out
\* a copy.
GetStudySetDetails(service, studySetId) ==
    IF studySetId \notin StudySetIdsOf(service) THEN <<>>
    ELSE <<[studySet |->
               IF service = "firebaseService"
               THEN [id |-> studySetId, shared |-> TRUE, summaryText |-> ""]
               ELSE [id |-> studySetId, shared |-> FALSE,
                     summaryText |-> StudySetOf(service, studySetId).summaryText],
            keywords |-> FilterByStudySet(Stored(service, "keywords"), studySetId),
            flashcards |-> FilterByStudySet(Stored(service, "flashcards"), studySetId),
            questions |-> FilterByStudySet(Stored(service, "practiceQuestions"), studySetId)]>>

\* data.studySet.summaryText as the view reads it in the given store
SummaryTextIn(data, sets) ==
    IF data = <<>> THEN ""
    ELSE IF data[1].studySet.shared
    THEN sets[CHOOSE j \in 1..Len(sets) : sets[j].id = data[1].studySet.id].summaryText
    ELSE data[1].studySet.summaryText

\* What StudySetView renders
Rendered ==
    IF selectedStudySetId = 0 THEN "dashboard"
    ELSE IF viewIsLoading THEN "spinner"
    ELSE IF viewData = <<>> THEN "not found"
    ELSE "tabs"

\* The store with the summary text of a study set replaced
WithSummaryText(sets, studySetId, newText) ==
    [j \in 1..Len(sets) |->
        IF sets[j].id = studySetId THEN [sets[j] EXCEPT !.summaryText = newText]
        ELSE sets[j]]

\* The calls of a component that has been unmounted set no state any more.
Unmounted(calls, field) ==
    [k \in 1..Len(calls) |-> [calls[k] EXCEPT ![field] = FALSE]]

\* The oldest call that has not been settled, 0 when there is none
OldestPending(calls) ==
    IF \E k \in 1..Len(calls) : calls[k].status = "pending"
    THEN CHOOSE k \in 1..Len(calls) :
            /\ calls[k].status = "pending"
            /\ \A j \in 1..(k - 1) : calls[j].status # "pending"
    ELSE 0

\* Each service holds two study sets with a keyword, a flashcard and a
\* question each; the dashboard is shown.
InitView ==
    /\ now = 0
    /\ SRSIdle
    /\ QuizIdle
    /\ CleanIdle
    /\ ModalIdle
    /\ PageIdle
    /\ arrHeap = <<>>
    /\ pendingSRS = <<>>
    /\ dataFlashcards = 0
    /\ tabOpen = FALSE
    /\ flashcards = 0
    /\ isStudying = FALSE
    /\ currentCardIndex = 0
    /\ isFlipped = FALSE
    /\ reviews = 0
    /\ sessionRatings = 0
    /\ backend \in Backends
    /\ LET seeded == InitializeNewStudySetData(EmptyMock, "user1", SeedData, 0)
           added == InitializeNewStudySetData(seeded, "user1", SeedData, 0)
           first == FirestoreBatch("user1", SeedData, added.nextId, 0)
           second == FirestoreBatch("user1", SeedData, first.nextId, 0)
       IN  /\ mockStudySets = added.studySets
           /\ mockKeywords = added.keywords
           /\ mockFlashcards = added.flashcards
           /\ mockPracticeQuestions = added.practiceQuestions
           /\ srsHeap = added.srsHeap
           /\ cardHeap = added.cardHeap
           /\ firestore =
                 [studySets |-> first.studySets \o second.studySets,
                  keywords |-> first.keywords \o second.keywords,
                  flashcards |-> first.flashcards \o second.flashcards,
                  practiceQuestions |-> first.practiceQuestions \o second.practiceQuestions]
           /\ nextId = second.nextId
    /\ mockTimers = <<>>
    /\ fsWrites = <<>>
    /\ addLog = <<>>
    /\ updateLog = <<>>

\* What no action of the view touches
offView == <<now, srsVars, deckVars, quizVars, cleanVars, modalVars, backend, nextId,
             mockKeywords, mockPracticeQuestions, mockTimers, fsWrites, addLog,
             updateLog>>

\* A study set is selected (a card of the dashboard, whose list comes from
\* Firestore, or a stale id): StudySetView mounts and its effect calls
\* getStudySetDetails.
selectStudySet(studySetId) ==
    /\ selectedStudySetId = 0
    /\ Len(loadCalls) < MaxLoads
    /\ selectedStudySetId' = studySetId
    /\ viewData' = <<>>
    /\ viewIsLoading' = TRUE
    /\ activeTab' = "summary"
    /\ loadCalls' = Append(loadCalls, [studySetId |-> studySetId, status |-> "pending",
                                       view |-> TRUE])
    /\ UNCHANGED <<summary, isSaving, saveCalls, mockStudySets, firestore, offView>>

\* getStudySetDetails resolves for call k: if (details) setData(details);
\* setIsLoading(false).  With data the summary tab mounts.
getStudySetDetailsResolves(k) ==
    /\ k \in 1..Len(loadCalls)
    /\ loadCalls[k].status = "pending"
    /\ loadCalls' = [loadCalls EXCEPT ![k].status = "resolved"]
    /\ IF loadCalls[k].view
       THEN LET details == GetStudySetDetails(backend, loadCalls[k].studySetId)
            IN  /\ viewData' = IF details # <<>> THEN details ELSE viewData
                /\ viewIsLoading' = FALSE
                /\ summary' = SummaryTextIn(viewData', Stored(backend, "studySets"))
                /\ UNCHANGED isSaving
       ELSE UNCHANGED <<viewData, viewIsLoading, summary, isSaving>>
    /\ UNCHANGED <<selectedStudySetId, activeTab, saveCalls, mockStudySets, firestore,
                   offView>>

\* getStudySetDetails rejects for call k (a read of Firestore fails; the
\* promise of firebaseService is never rejected): .catch(console.error)
getStudySetDetailsRejects(k) ==
    /\ k \in 1..Len(loadCalls)
    /\ loadCalls[k].status = "pending"
    /\ backend = "firestoreService"
    /\ loadCalls' = [loadCalls EXCEPT ![k].status = "rejected"]
    /\ UNCHANGED <<selectedStudySetId, viewData, viewIsLoading, activeTab, summary,
                   isSaving, saveCalls, mockStudySets, firestore, offView>>

\* onBack, from the not-found view and from the tabs (the spinner has no
\* button): StudySetView unmounts.
onBack ==
    /\ Rendered \in {"not found", "tabs"}
    /\ selectedStudySetId' = 0
    /\ viewIsLoading' = FALSE
    /\ viewData' = <<>>
    /\ activeTab' = "summary"
    /\ summary' = ""
    /\ isSaving' = FALSE
    /\ loadCalls' = Unmounted(loadCalls, "view")
    /\ saveCalls' = Unmounted(Unmounted(saveCalls, "view"), "tab")
    /\ UNCHANGED <<mockStudySets, firestore, offView>>

\* setActiveTab: leaving the summary tab unmounts SummaryTab, coming back
\* mounts a new one with useState(studySet.summaryText).
setActiveTab(tab) ==
    /\ Rendered = "tabs"
    /\ tab # activeTab
    /\ activeTab' = tab
    /\ isSaving' = FALSE
    /\ IF tab = "summary"
       THEN /\ summary' = SummaryTextIn(viewData, Stored(backend, "studySets"))
            /\ UNCHANGED saveCalls
       ELSE /\ summary' = ""
            /\ saveCalls' = Unmounted(saveCalls, "tab")
    /\ UNCHANGED <<selectedStudySetId, viewIsLoading, viewData, loadCalls,
                   mockStudySets, firestore, offView>>

\* Typing in the textarea: setSummary
setSummary(text) ==
    /\ Rendered = "tabs"
    /\ activeTab = "summary"
    /\ text # summary
    /\ summary' = text
    /\ UNCHANGED <<selectedStudySetId, viewIsLoading, viewData, loadCalls, activeTab,
                   isSaving, saveCalls, mockStudySets, firestore, offView>>

\* The Save Changes button (disabled while saving or without a change):
\* handleSave up to the await in handleUpdateSummary.
handleSave ==
    /\ Rendered = "tabs"
    /\ activeTab = "summary"
    /\ ~isSaving
    /\ summary # SummaryTextIn(viewData, Stored(backend, "studySets"))
    /\ Len(saveCalls) < MaxSaves
    /\ isSaving' = TRUE
    /\ saveCalls' = Append(saveCalls,
                           [studySetId |-> viewData[1].studySet.id, newText |-> summary,
                            status |-> "pending", view |-> TRUE, tab |-> TRUE])
    /\ UNCHANGED <<selectedStudySetId, viewIsLoading, viewData, loadCalls, activeTab,
                   summary, mockStudySets, firestore, offView>>

\* updateSummaryText settles for the oldest pending call: the store writes
\* the text and resolves, then setData puts a copy with the new text and
\* setIsSaving(false) runs; or the study set is missing and it rejects:
\* await onSave(summary) throws and setIsSaving(false) is not reached.
updateSummaryTextSettles ==
    /\ OldestPending(saveCalls) # 0
    /\ LET k == OldestPending(saveCalls)
           call == saveCalls[k]
       IN  IF call.studySetId \in StudySetIdsOf(backend)
           THEN /\ saveCalls' = [saveCalls EXCEPT ![k].status = "resolved"]
                /\ IF backend = "firebaseService"
                   THEN /\ mockStudySets' = WithSummaryText(mockStudySets, call.studySetId,
                                                            call.newText)
                        /\ UNCHANGED firestore
                   ELSE /\ firestore' = [firestore EXCEPT !.studySets =
                                            WithSummaryText(@, call.studySetId, call.newText)]
                        /\ UNCHANGED mockStudySets
                /\ viewData' =
                      IF call.view /\ viewData # <<>>
                      THEN <<[viewData[1] EXCEPT !.studySet =
                                 [id |-> @.id, shared |-> FALSE,
                                  summaryText |-> call.newText]]>>
                      ELSE viewData
                /\ isSaving' = IF call.tab THEN FALSE ELSE isSaving
           ELSE /\ saveCalls' = [saveCalls EXCEPT ![k].status = "rejected"]
                /\ UNCHANGED <<isSaving, viewData, mockStudySets, firestore>>
    /\ UNCHANGED <<selectedStudySetId, viewIsLoading, loadCalls, activeTab, summary,
                   offView>>

\* updateDoc rejects for the oldest pending call (the write to Firestore
\* fails): nothing is written, and handleSave ends at its await.
updateSummaryTextRejects ==
    /\ OldestPending(saveCalls) # 0
    /\ backend = "firestoreService"
    /\ saveCalls' = [saveCalls EXCEPT ![OldestPending(saveCalls)].status = "rejected"]
    /\ UNCHANGED <<selectedStudySetId, viewIsLoading, viewData, loadCalls, activeTab,
                   summary, isSaving, mockStudySets, firestore, offView>>

NextView ==
    \/ \E studySetId \in StudySetIdsOf("firebaseService") \cup StudySetIdsOf("firestoreService") :
          selectStudySet(studySetId)
    \/ \E k \in 1..MaxLoads : getStudySetDetailsResolves(k)
    \/ \E k \in 1..MaxLoads : getStudySetDetailsRejects(k)
    \/ onBack
    \/ \E tab \in {"summary", "other"} : setActiveTab(tab)
    \/ \E text \in SummaryTexts : setSummary(text)
    \/ handleSave
    \/ updateSummaryTextSettles
    \/ updateSummaryTextRejects

SpecView == InitView /\ [][NextView]_vars

\* ------------------------------------------------ properties of SpecSRS
\* C1: from a new flashcard (interval 1, easeFactor 2.5), after any sequence
\* of reviews the card has easeFactor >= 1.3 and interval >= 1.
C1_Floors ==
    /\ 13 * newSrsData.easeFactor.d <= 10 * newSrsData.easeFactor.n
    /\ newSrsData.interval.d <= newSrsData.interval.n

\* A seventh 'again' in a row: the ease factor is already 1.3 and stays there.
C1_Witness ==
    /\ chain >= 7
    /\ difficulty = "again"
    /\ srsData.easeFactor = [n |-> 13, d |-> 10]
    /\ newSrsData.easeFactor = [n |-> 13, d |-> 10]

\* C2: a review rated 'again' yields interval 1 and easeFactor
\* max(1.3, e - 0.2), whatever the interval was.
C2_Again ==
    difficulty = "again" =>
        LET e == srsData.easeFactor
            lowered == Q(5 * e.n - e.d, 5 * e.d)
        IN  /\ newSrsData.interval = [n |-> 1, d |-> 1]
            /\ newSrsData.easeFactor =
                   IF 10 * lowered.n < 13 * lowered.d THEN [n |-> 13, d |-> 10] ELSE lowered

\* 'again' on a card whose interval was above 1 and whose ease was above 1.5.
C2_Witness ==
    /\ difficulty = "again"
    /\ srsData.interval.n > 2 * srsData.interval.d
    /\ 2 * srsData.easeFactor.n > 3 * srsData.easeFactor.d
    /\ newSrsData.interval = [n |-> 1, d |-> 1]

\* C3: a review rated 'hard' yields interval max(1, i * 0.8) and easeFactor
\* max(1.3, e - 0.15).
C3_Hard ==
    difficulty = "hard" =>
        LET e == srsData.easeFactor
            i == srsData.interval
            lowered == Q(20 * e.n - 3 * e.d, 20 * e.d)
            shortened == Q(4 * i.n, 5 * i.d)
        IN  /\ newSrsData.interval =
                   IF shortened.n < shortened.d THEN [n |-> 1, d |-> 1] ELSE shortened
            /\ newSrsData.easeFactor =
                   IF 10 * lowered.n < 13 * lowered.d THEN [n |-> 13, d |-> 10] ELSE lowered

\* 'hard' on a card with interval 1: 0.8 is raised to 1.
C3_Witness ==
    /\ difficulty = "hard"
    /\ srsData.interval = [n |-> 1, d |-> 1]
    /\ newSrsData.interval = [n |-> 1, d |-> 1]

\* C4: a review rated 'good' yields interval i * e and leaves the ease
\* factor; {interval 1, ease 2.5} becomes {interval 2.5, ease 2.5}.
C4_Good ==
    difficulty = "good" =>
        LET e == srsData.easeFactor
            i == srsData.interval
        IN  /\ newSrsData.interval = Q(i.n * e.n, i.d * e.d)
            /\ newSrsData.easeFactor = e
            /\ (i = [n |-> 1, d |-> 1] /\ e = [n |-> 5, d |-> 2]) =>
                   /\ newSrsData.interval = [n |-> 5, d |-> 2]
                   /\ newSrsData.easeFactor = [n |-> 5, d |-> 2]

C4_Witness ==
    /\ difficulty = "good"
    /\ srsData.interval = [n |-> 1, d |-> 1]
    /\ srsData.easeFactor = [n |-> 5, d |-> 2]
    /\ newSrsData.interval = [n |-> 5, d |-> 2]

\* C5: a review rated 'easy' yields interval i * e * 1.3 with the ease factor
\* of before the review, and easeFactor e + 0.15 without a cap;
\* {interval 2.5, ease 2.5} becomes {interval 8.125, ease 2.65}.
C5_Easy ==
    difficulty = "easy" =>
        LET e == srsData.easeFactor
            i == srsData.interval
        IN  /\ newSrsData.interval = Q(13 * i.n * e.n, 10 * i.d * e.d)
            /\ newSrsData.easeFactor = Q(20 * e.n + 3 * e.d, 20 * e.d)
            /\ (i = [n |-> 5, d |-> 2] /\ e = [n |-> 5, d |-> 2]) =>
                   /\ newSrsData.interval = [n |-> 65, d |-> 8]
                   /\ newSrsData.easeFactor = [n |-> 53, d |-> 20]

C5_Witness ==
    /\ difficulty = "easy"
    /\ srsData.interval = [n |-> 5, d |-> 2]
    /\ srsData.easeFactor = [n |-> 5, d |-> 2]
    /\ newSrsData.interval = [n |-> 65, d |-> 8]
    /\ newSrsData.easeFactor = [n |-> 53, d |-> 20]

\* C6: after a review the nextReviewDate is the time of the review plus
\* round(interval') days, interval' being the interval the review computed:
\* a whole number k of days with k - 1/2 <= interval' < k + 1/2.
C6_NextReviewDate ==
    difficulty # "none" =>
        LET i == newSrsData.interval
            ticks == newSrsData.nextReviewDate - reviewedAt
            k == ticks \div TicksPerDay
        IN  /\ ticks = k * TicksPerDay
            /\ (2 * k - 1) * i.d <= 2 * i.n
            /\ 2 * i.n < (2 * k + 1) * i.d

\* A review made after time 0 whose new interval rounds to another number of
\* days than the old one.
C6_Witness ==
    /\ difficulty # "none"
    /\ reviewedAt > 0
    /\ MathRound(srsData.interval) # MathRound(newSrsData.interval)
    /\ newSrsData.nextReviewDate = reviewedAt + MathRound(newSrsData.interval) * TicksPerDay

\* --------------------------------------------------- properties of Spec
\* The ids of the cards of the deck, in deck order.
DeckIds == [k \in 1..Len(studyDeck) |-> cardHeap[studyDeck[k]].id]

\* C7: the deck is in ascending order of nextReviewDate and a review made
\* during a session leaves every card of the deck at its position.
C7_DeckOrderFixed ==
    [][(reviews' = reviews + 1 /\ isStudying') => DeckIds' = DeckIds]_vars

\* C8: in a session over a deck of N >= 1 cards a rating at an index below
\* N - 1 moves to the next index, the rating at index N - 1 ends the session,
\* and that rating is the N-th of the session.
C8_SessionAdvance ==
    [][(reviews' = reviews + 1) =>
          LET N == Len(studyDeck)
          IN  /\ N >= 1
              /\ currentCardIndex <= N - 1
              /\ sessionRatings = currentCardIndex
              /\ currentCardIndex < N - 1 =>
                     (isStudying' /\ currentCardIndex' = currentCardIndex + 1)
              /\ currentCardIndex = N - 1 =>
                     (~isStudying' /\ sessionRatings' = N)]_vars

\* A session over a deck of two cards that its second rating has ended.
C8_Witness ==
    /\ tabOpen
    /\ ~isStudying
    /\ Len(studyDeck) = 2
    /\ sessionRatings = 2
    /\ currentCardIndex = 1

C10_SortedByBloom ==
    quizTabOpen =>
        LET rank == [l \in PayloadLevels |->
                        CASE l = "Remember" -> 0 [] l = "Understand" -> 1
                          [] l = "Apply" -> 2 [] l = "Analyze" -> 3
                          [] l = "Evaluate" -> 4 [] l = "Create" -> 5
                          [] OTHER -> -1]
            levelsOf(qs) == [k \in 1..Len(qs) |-> qs[k].bloomLevel]
            count(qs, q) == Cardinality({k \in 1..Len(qs) : qs[k] = q})
        IN  /\ Len(sortedQuestions) = Len(questions)
            /\ \A k \in 1..Len(questions) :
                  count(sortedQuestions, questions[k]) = count(questions, questions[k])
            /\ \A k, j \in 1..Len(sortedQuestions) :
                  k < j => rank[sortedQuestions[k].bloomLevel] <= rank[sortedQuestions[j].bloomLevel]
            /\ levelsOf(questions) = <<"Apply", "Remember", "Analyze">> =>
                  levelsOf(sortedQuestions) = <<"Remember", "Apply", "Analyze">>

C10_Witness ==
    /\ quizTabOpen
    /\ Len(questions) = 3
    /\ questions[1].bloomLevel = "Apply"
    /\ questions[2].bloomLevel = "Remember"
    /\ questions[3].bloomLevel = "Analyze"
    /\ sortedQuestions = <<questions[2], questions[1], questions[3]>>

ScoreShown == [score |-> score, total |-> Len(sortedQuestions)]

\* C12: while one QuizTab stays mounted, quizState changes only from idle
\* to active, from active to finished (the 'Next Question' step on the last
\* question) and from finished to active; and every step taken while
\* feedback is shown on a question that is not the last one adds one to the
\* index and clears the feedback and the answer, staying active.
C12_StateMoves ==
    [][(quizTabOpen /\ quizTabOpen') =>
          /\ quizState' # quizState =>
                \/ quizState = "idle" /\ quizState' = "active"
                \/ /\ quizState = "active" /\ quizState' = "finished"
                   /\ feedback # <<>>
                   /\ currentQuestionIndex = Len(sortedQuestions) - 1
                \/ quizState = "finished" /\ quizState' = "active"
          /\ (/\ quizState = "active"
              /\ feedback # <<>>
              /\ currentQuestionIndex < Len(sortedQuestions) - 1) =>
                /\ quizState' = "active"
                /\ currentQuestionIndex' = currentQuestionIndex + 1
                /\ feedback' = <<>>
                /\ userAnswer' = ""]_vars

\* A restarted attempt stands on its second question, the answer empty.
C12_Witness ==
    /\ quizState = "active"
    /\ enteredFrom = "finished"
    /\ currentQuestionIndex = 1
    /\ Len(attemptLog) = 1
    /\ userAnswer = ""
    /\ feedback = <<>>

\* C13: every step into the active state, from idle or from finished,
\* leaves index 0, score 0, no feedback and an empty answer, and nothing
\* else of an earlier attempt: no evaluation, no pending grading call,
\* isSubmitting false.
C13_EntryResets ==
    [][(quizState # "active" /\ quizState' = "active") =>
          /\ currentQuestionIndex' = 0
          /\ score' = 0
          /\ feedback' = <<>>
          /\ userAnswer' = ""
          /\ attemptLog' = <<>>
          /\ gradingCall' = <<>>
          /\ ~isSubmitting']_vars

\* The fresh state of a restart: the attempt before it had run to finished.
C13_Witness ==
    /\ quizState = "active"
    /\ enteredFrom = "finished"
    /\ currentQuestionIndex = 0
    /\ score = 0
    /\ userAnswer = ""
    /\ feedback = <<>>
    /\ attemptLog = <<>>

\* C14: while the quiz is active and feedback is shown or a grading call
\* is pending, the answer of the current question does not change and no
\* second evaluation of it is made; no question is evaluated twice in one
\* attempt, and score <= currentQuestionIndex + 1 <= number of questions
\* in every state of a mounted QuizTab.
C14_NoInputAfterSubmit ==
    /\ [][(/\ quizTabOpen /\ quizTabOpen'
           /\ quizState = "active" /\ quizState' = "active"
           /\ currentQuestionIndex' = currentQuestionIndex
           /\ (feedback # <<>> \/ gradingCall # <<>>)) =>
              /\ userAnswer' = userAnswer
              /\ feedback # <<>> => attemptLog' = attemptLog]_vars
    /\ [](quizTabOpen =>
              /\ \A k, j \in 1..Len(attemptLog) :
                    attemptLog[k].index = attemptLog[j].index => k = j
              /\ score <= currentQuestionIndex + 1
              /\ currentQuestionIndex + 1 <= Len(sortedQuestions))

\* C15: in the finished state the score shown is the number of this
\* attempt's evaluations that were correct, every question has been
\* evaluated, and the total shown is the number of questions of the set.
C15_FinalScore ==
    quizState = "finished" =>
        /\ ScoreShown.score =
              Cardinality({k \in 1..Len(attemptLog) : attemptLog[k].correct})
        /\ {attemptLog[k].index : k \in 1..Len(attemptLog)} = 0..(Len(questions) - 1)
        /\ ScoreShown.total = Len(questions)

\* Three questions, two judged correct and one not, at least one of the
\* correct ones by the grading collaborator.
C15_Witness ==
    /\ quizState = "finished"
    /\ Len(attemptLog) = 3
    /\ score = 2
    /\ \E k \in 1..3 : /\ attemptLog[k].correct
                       /\ sortedQuestions[attemptLog[k].index + 1].questionType = "open_ended"

\* C16: the step that evaluates a closed-form question sets
\* feedback.correct to (userAnswer = correctAnswer), adds one to the score
\* exactly when they are equal, and sets the text to 'Correct!' when they
\* are and otherwise to a text that has correctAnswer as one of its parts.
C16_ClosedForm ==
    [][(/\ quizTabOpen /\ quizTabOpen'
        /\ quizState = "active"
        /\ feedback = <<>> /\ feedback' # <<>>
        /\ currentQuestion.questionType = "mcq") =>
          LET equal == userAnswer = currentQuestion.correctAnswer
              text == feedback'[1].text
          IN  /\ feedback'[1].correct = equal
              /\ score' = IF equal THEN score + 1 ELSE score
              /\ equal => text = <<"Correct!">>
              /\ ~equal => \E k \in 1..Len(text) : text[k] = currentQuestion.correctAnswer]_vars

\* The first option, which is not the correct one, was submitted after an
\* earlier question had been answered correctly.
C16_Witness ==
    /\ quizTabOpen
    /\ quizState = "active"
    /\ currentQuestionIndex >= 1
    /\ score >= 1
    /\ currentQuestion.questionType = "mcq"
    /\ userAnswer = MCQOptions[1]
    /\ feedback = <<[correct |-> FALSE, text |-> <<"The correct answer is ", MCQCorrectAnswer>>]>>

\* C17: submitting an open-form answer calls the collaborator with the
\* current question's text, its rubric and the answer; when the call has
\* resolved, feedback.correct is its is_correct, feedback.text is its
\* feedback_text, and the score grows by one exactly when is_correct.
C17_OpenForm ==
    [][(quizTabOpen /\ quizTabOpen') =>
          /\ (gradingCall = <<>> /\ gradingCall' # <<>>) =>
                /\ gradingCall'[1].questionText = currentQuestion.questionText
                /\ gradingCall'[1].aiGradingRubric = currentQuestion.aiGradingRubric
                /\ gradingCall'[1].userAnswer = userAnswer
          /\ (/\ gradingCall # <<>> /\ gradingCall' = <<>>
              /\ gradingCall[1].response.status = "fulfilled") =>
                LET result == gradingCall[1].response
                IN  /\ feedback' = <<[correct |-> result.is_correct,
                                      text |-> result.feedback_text]>>
                    /\ score' = IF result.is_correct THEN score + 1 ELSE score]_vars

\* The collaborator judged an answer incorrect with a praising text: both
\* are shown as they came.
C17_Witness ==
    /\ quizTabOpen
    /\ quizState = "active"
    /\ ~RenderThrows
    /\ currentQuestion.questionType = "open_ended"
    /\ feedback = <<[correct |-> FALSE, text |-> <<"well done">>]>>
    /\ score = 0
    /\ gradingCall = <<>>

\* C18: when handleSubmitAnswer resumes from a grading call that rejected,
\* no feedback is set, the score is unchanged and isSubmitting is false
\* again, so that the answer can be submitted again.
C18_GradingFailureRecoverable ==
    [][(/\ quizTabOpen /\ quizTabOpen'
        /\ gradingCall # <<>> /\ gradingCall' = <<>>
        /\ gradingCall[1].response.status = "rejected") =>
          /\ feedback' = <<>>
          /\ score' = score
          /\ ~isSubmitting']_vars

\* ---------------------------------------------- properties of SpecStore
\* The number of children of a study set in a collection
ChildrenOf(service, collection, studySetId) ==
    LET docs == Stored(service, collection)
    IN  Cardinality({k \in 1..Len(docs) : docs[k].studySetId = studySetId})

\* C19: after every addStudySet call that has ended, resolved or not,
\* either the store holds the study set and every keyword, flashcard and
\* practice question of the payload, or it holds neither the study set nor
\* any child of it.
C19_AddStudySetAtomic ==
    \A c \in 1..Len(addLog) :
        LET call == addLog[c]
            sets == Stored(call.service, "studySets")
            setExists == \E k \in 1..Len(sets) : sets[k].id = call.studySetId
            present(collection) == ChildrenOf(call.service, collection, call.studySetId)
        IN  \/ /\ setExists
               /\ present("keywords") = Len(call.data.keywords.items)
               /\ present("flashcards") = Len(call.data.flashcards.items)
               /\ present("practiceQuestions") = Len(call.data.practice_questions.items)
            \/ /\ ~setExists
               /\ present("keywords") = 0
               /\ present("flashcards") = 0
               /\ present("practiceQuestions") = 0

\* --------------------------------------------- properties of SpecScores
\* The entry of a user in a keyword's score map, 0 when there is none
EntryOf(keyword, userId) ==
    IF userId \in DOMAIN keyword.userImportanceScores
    THEN keyword.userImportanceScores[userId]
    ELSE 0

\* C20: a step of either service changes no entry but that of the user and
\* keyword of the update it settles, which becomes the update's score, and
\* adds or removes no keyword; a score map only has entries of users, one
\* each; and every entry is the score of the most recent update of that
\* user and keyword that has been written (updates are written in the
\* order of their calls), with no entry when there has been none.
C20_ScoreFrame ==
    /\ [][\A service \in Backends :
             LET old == IF service = "firestoreService" THEN firestore.keywords
                        ELSE mockKeywords
                 new == IF service = "firestoreService" THEN firestore'.keywords
                        ELSE mockKeywords'
                 queue == IF service = "firestoreService" THEN fsWrites ELSE mockTimers
             IN  /\ Len(new) = Len(old)
                 /\ \A k \in 1..Len(old) :
                       /\ new[k].id = old[k].id
                       /\ \A u \in Users :
                             EntryOf(new[k], u) # EntryOf(old[k], u) =>
                                /\ queue # <<>>
                                /\ Head(queue).keywordId = old[k].id
                                /\ Head(queue).userId = u
                                /\ Head(queue).score = EntryOf(new[k], u)]_vars
    /\ [](\A service \in Backends :
             LET keywords == IF service = "firestoreService" THEN firestore.keywords
                             ELSE mockKeywords
             IN  \A k \in 1..Len(keywords) :
                    /\ DOMAIN keywords[k].userImportanceScores \subseteq Users
                    /\ \A u \in Users :
                          LET written == {c \in 1..Len(updateLog) :
                                             /\ service = backend
                                             /\ updateLog[c].keywordId = keywords[k].id
                                             /\ updateLog[c].userId = u
                                             /\ updateLog[c].status = "resolved"}
                              last == CHOOSE c \in written : \A d \in written : d <= c
                          IN  EntryOf(keywords[k], u) =
                                 IF written = {} THEN 0 ELSE updateLog[last].score)
    /\ [](\A c, d \in 1..Len(updateLog) :
             (c < d /\ updateLog[c].status = "pending") => updateLog[d].status = "pending")

\* user1 has rated a keyword twice and user2 once in between: the map has
\* user1's second score and user2's score, the other keywords have none.
C20_Witness ==
    /\ Len(updateLog) = 3
    /\ \A c \in 1..3 : updateLog[c].status = "resolved"
    /\ updateLog[1].keywordId = updateLog[2].keywordId
    /\ updateLog[1].keywordId = updateLog[3].keywordId
    /\ updateLog[1].userId = "user1" /\ updateLog[1].score = 2
    /\ updateLog[2].userId = "user2" /\ updateLog[2].score = 2
    /\ updateLog[3].userId = "user1" /\ updateLog[3].score = 5
    /\ \E k \in 1..Len(mockKeywords) :
          /\ mockKeywords[k].id = updateLog[1].keywordId
          /\ mockKeywords[k].userImportanceScores = [u \in Users |-> IF u = "user1" THEN 5 ELSE 2]
          /\ \A j \in 1..Len(mockKeywords) :
                j # k => mockKeywords[j].userImportanceScores = NoScores

\* C26: a study session over a deck of N cards that is run to its end has
\* shown every card of the deck exactly once.  A session ends by itself after
\* N ratings, and a rated card's nextReviewDate lies after time 0; so when the
\* rating that ends the first session with ratings is given, no card of the
\* deck is left unrated.
C26_EveryCardOnce ==
    [][(/\ isStudying
        /\ ~isStudying'
        /\ sessionRatings' = Len(studyDeck)
        /\ reviews' = sessionRatings')
           => \A i \in 1..Len(studyDeck') :
                  SrsOf(cardHeap', srsHeap', studyDeck'[i]) # NewSRSData(0)]_vars

\* C27: whenever the quiz is active, currentQuestionIndex is a valid index of
\* sortedQuestions, so a current question exists.
C27_CurrentQuestionExists ==
    (quizTabOpen /\ quizState = "active")
        => currentQuestionIndex < Len(sortedQuestions)

\* The srsData record of a stored flashcard
SrsDataOf(service, card) ==
    IF service = "firestoreService" THEN card.srsData ELSE srsHeap[card.srsData]

\* C28: every flashcard created by addStudySet has interval 1, easeFactor
\* 2.5 (= 5/2), nextReviewDate equal to the creation time of its study set,
\* which is not in the future, and isUserEdited false; every keyword created
\* has an empty score map.  (No operation of SpecStore changes a card or a
\* keyword after its creation.)
C28_NewCardDefaults ==
    \A service \in Backends :
        LET sets == Stored(service, "studySets")
            cards == Stored(service, "flashcards")
            keywords == Stored(service, "keywords")
        IN  /\ \A k \in 1..Len(cards) :
                  LET srs == SrsDataOf(service, cards[k])
                  IN  /\ srs.interval = [n |-> 1, d |-> 1]
                      /\ srs.easeFactor = [n |-> 5, d |-> 2]
                      /\ srs.nextReviewDate <= now
                      /\ \E j \in 1..Len(sets) :
                            /\ sets[j].id = cards[k].studySetId
                            /\ sets[j].createdAt = srs.nextReviewDate
                      /\ cards[k].isUserEdited = FALSE
            /\ \A k \in 1..Len(keywords) :
                  DOMAIN keywords[k].userImportanceScores = {}

\* An addStudySet call made after time has passed has resolved, and the
\* store holds the flashcard and the keyword it created.
C28_Witness ==
    \E c \in 1..Len(addLog) :
        /\ addLog[c].outcome = "resolved"
        /\ now > 0
        /\ LET cards == Stored(addLog[c].service, "flashcards")
               keywords == Stored(addLog[c].service, "keywords")
           IN  /\ \E k \in 1..Len(cards) :
                     /\ cards[k].studySetId = addLog[c].studySetId
                     /\ SrsDataOf(addLog[c].service, cards[k]).nextReviewDate = now
               /\ \E k \in 1..Len(keywords) :
                     keywords[k].studySetId = addLog[c].studySetId

\* C25: for every JSON payload P, the cleaned form of a response made of an
\* opening fence (with or without the tag json), P and a closing fence parses to the value
\* of P; the cleaned form of an unfenced P is P without the outer whitespace;
\* and when the cleaned text does not parse, processSourceMaterial fails.
C25_FencesUnwrapped ==
    jsonText # <<>> =>
        /\ (/\ responseText.payload \in JsonPayloads
            /\ responseText.opening # <<>>
            /\ responseText.closing # <<>>)
               => /\ JSONParse(jsonText[1]) = JSONParse(responseText.payload)
                  /\ studySetData = [status |-> "fulfilled",
                                      value |-> JSONParse(responseText.payload).value]
        /\ (/\ responseText.payload \in JsonPayloads
            /\ responseText.opening = <<>>
            /\ responseText.closing = <<>>)
               => jsonText[1] = responseText.payload
        /\ JSONParse(jsonText[1]).status = "threw" => studySetData.status = "rejected"

\* The study set a run of handleSubmit was building is in Firestore.
Persisted(run, store) ==
    \E j \in 1..Len(store.studySets) : store.studySets[j].id = run.studySetId

\* C21: when generation or persistence fails for a submission, the failure
\* message is set, the loading flag is cleared, nothing is written to the
\* store and no call to the generation collaborator is made by that step;
\* the study set of a failed submission is never in the store; and a call to
\* the generation collaborator is only ever started by a submit of the open
\* form with the button enabled.
C21_FailureSurfaced ==
    /\ [][\A k \in 1..Len(submissions) :
             (InFlight(submissions[k]) /\ submissions'[k].stage = "failed") =>
                /\ modalError' = <<FailedMessage>>
                /\ modalIsLoading' = FALSE
                /\ firestore' = firestore
                /\ generationCalls' = generationCalls
                /\ Len(submissions') = Len(submissions)]_vars
    /\ [](\A k \in 1..Len(submissions) :
             submissions[k].stage = "failed" => ~Persisted(submissions[k], firestore))
    /\ [][generationCalls' # generationCalls =>
             /\ isModalOpen /\ sourceGiven /\ ~modalIsLoading
             /\ generationCalls' = generationCalls + 1
             /\ Len(submissions') = Len(submissions) + 1]_vars

\* The only submission has failed: nothing is stored, and the open form
\* shows the message with its button enabled again.
C21_Witness ==
    /\ Len(submissions) = 1
    /\ submissions[1].stage = "failed"
    /\ isModalOpen
    /\ sourceGiven
    /\ modalError = <<FailedMessage>>
    /\ ~modalIsLoading
    /\ firestore.studySets = <<>>

\* C22: closing the modal changes the stage of no run of handleSubmit; a
\* run that was in flight when the modal was closed still goes on to the
\* persistence call when generation resolves, and when that call resolves
\* the study set is in the store and fetchStudySets is called.
C22_CloseDoesNotAbort ==
    /\ [][\A k \in 1..Len(submissions) :
             /\ (~submissions[k].closed /\ submissions'[k].closed) =>
                    submissions'[k].stage = submissions[k].stage
             /\ (/\ submissions[k].closed
                 /\ submissions[k].stage = "persisting"
                 /\ submissions'[k].stage = "done") =>
                    /\ Persisted(submissions[k], firestore')
                    /\ ~Persisted(submissions[k], firestore)
                    /\ fetchCalls' = fetchCalls + 1]_vars
    /\ [](\A k \in 1..Len(submissions) :
             submissions[k].stage = "done" => Persisted(submissions[k], firestore))

\* The only submission was in flight when the modal was closed, it has
\* succeeded since, and the refreshed list shows its study set.
C22_Witness ==
    /\ Len(submissions) = 1
    /\ submissions[1].closed
    /\ submissions[1].stage = "done"
    /\ Persisted(submissions[1], firestore)
    /\ studySets = <<submissions[1].studySetId>>

\* C29: at most one submission of the modal is in flight at any time.
C29_OneGenerationInFlight ==
    Cardinality({k \in 1..Len(submissions) : InFlight(submissions[k])}) <= 1

\* ----------------------------------------------- properties of SpecView
\* The documents of a collection of the view's service that carry the id
DocsOf(collection, studySetId) ==
    {k \in 1..Len(Stored(backend, collection)) :
        Stored(backend, collection)[k].studySetId = studySetId}

\* C23: when getStudySetDetails resolves for the mounted view, the view
\* leaves the loading state; if the service holds no study set with the
\* requested id the result is null and the view shows the not-found state,
\* from which onBack is available; otherwise the result is the study set
\* with that id and, of each collection, exactly the children whose
\* studySetId is that id.
C23_NotFound ==
    /\ [][\A k \in 1..Len(loadCalls) :
             (/\ loadCalls[k].status = "pending"
              /\ loadCalls'[k].status = "resolved"
              /\ loadCalls[k].view) =>
                LET id == loadCalls[k].studySetId
                    exists == \E j \in 1..Len(Stored(backend, "studySets")) :
                                  Stored(backend, "studySets")[j].id = id
                    only(children, collection) ==
                        /\ \A c \in 1..Len(children) : children[c].studySetId = id
                        /\ Len(children) = Cardinality(DocsOf(collection, id))
                IN  /\ viewIsLoading' = FALSE
                    /\ ~exists => (viewData' = <<>> /\ Rendered' = "not found")
                    /\ exists =>
                          /\ viewData' # <<>>
                          /\ viewData'[1].studySet.id = id
                          /\ only(viewData'[1].keywords, "keywords")
                          /\ only(viewData'[1].flashcards, "flashcards")
                          /\ only(viewData'[1].questions, "practiceQuestions")]_vars
    /\ [](Rendered = "not found" => ENABLED onBack)

\* The view shows the not-found state for an id its service does not hold.
C23_Witness ==
    /\ Rendered = "not found"
    /\ loadCalls[Len(loadCalls)].status = "resolved"
    /\ \A j \in 1..Len(Stored(backend, "studySets")) :
          Stored(backend, "studySets")[j].id # selectedStudySetId

\* C24: once the getStudySetDetails call of the mounted view has settled,
\* resolved or rejected, the view is not in the loading state.
C24_LoadFailureLeavesLoading ==
    (/\ selectedStudySetId # 0
     /\ loadCalls[Len(loadCalls)].status # "pending")
        => ~viewIsLoading

\* C30: the summaryText of the view's study set changes only in a step in
\* which an updateSummaryText call resolves, and becomes the text of that
\* call; a step in which the call rejects leaves it unchanged and sets
\* isSaving of the tab that made the call to false.
C30_SaveFailureRecoverable ==
    [][LET before == SummaryTextIn(viewData, Stored(backend, "studySets"))
           after == SummaryTextIn(viewData', Stored(backend, "studySets")')
       IN  /\ (viewData # <<>> /\ viewData' # <<>> /\ after # before) =>
                 \E k \in 1..Len(saveCalls) :
                    /\ saveCalls[k].status = "pending"
                    /\ saveCalls'[k].status = "resolved"
                    /\ saveCalls[k].newText = after
           /\ \A k \in 1..Len(saveCalls) :
                 (saveCalls[k].status = "pending" /\ saveCalls'[k].status = "rejected") =>
                    /\ after = before
                    /\ saveCalls[k].tab => isSaving' = FALSE]_vars

====
